---- MODULE Spec2Model ----
(***************************************************************************)
(* Task-state reconciliation layer of simple-todo-note (src/src/App.tsx):  *)
(* the in-memory task collection of the App component, the optimistic      *)
(* mutations it dispatches to the durable store, the responses of the      *)
(* store, and the timed soft-delete with undo.                             *)
(*                                                                         *)
(* An event handler of the component runs to completion; every await is a  *)
(* call in flight (calls), answered by the store in a later step and       *)
(* delivered to the continuation of the handler in a third one.            *)
(***************************************************************************)
EXTENDS Integers, Sequences, FiniteSets, TLC

(* ------------------------------ bounds -------------------------------- *)

\* user operations per behaviour
MaxOps == 2
\* store commands outstanding at once
MaxCalls == 2
\* tasks the store creates per behaviour
MaxCreates == 1
\* clock ticks per behaviour
MaxTicks == 2
\* commands the store fails per behaviour
MaxFailures == 1

(* ----------------------------- constants ------------------------------ *)

\* the grace window of a pending delete (setTimeout(..., 5000))
UndoGraceMs == 5000

\* how far one clock tick advances the time at most
TickMs == UndoGraceMs \div 2

MsPerDay == 24 * 60 * 60 * 1000

Null == "null"

None == << >>

Some(x) == << x >>

\* a Date value written with toISOString(): the text of an instant
Iso(ms) == [k |-> "iso", ms |-> ms]

\* recurrenceCheckedAt: null
NullTime == [k |-> "null", ms |-> 0]

RecurrenceTags == {"none", "daily", "weekly", "bi-weekly"}

\* the ids the store assigns to created tasks
FreshIds == << "t4", "t5" >>

(* ------------------------------ strings ------------------------------- *)

\* a text is the sequence of its characters
IsSpace(c) == c = " "

RECURSIVE TrimStart(_)
TrimStart(s) ==
  IF s # << >> /\ IsSpace(Head(s)) THEN TrimStart(Tail(s)) ELSE s

RECURSIVE TrimEnd(_)
TrimEnd(s) ==
  IF s # << >> /\ IsSpace(s[Len(s)]) THEN TrimEnd(SubSeq(s, 1, Len(s) - 1)) ELSE s

\* a trim that keeps the white space
Trim_Kept(s) == s

Trim(s) == TrimEnd(TrimStart(s))

(* ------------------------------- state -------------------------------- *)

VARIABLES
  todos,            \* useState<Todo[]>: the in-memory collection
  selectedTodoId,   \* useState<string | null>
  deletedSnapshot,  \* useState<DeletedSnapshot | null>: None or Some([todo, index])
  errorMessage,     \* useState<string | null>
  undoTimer,        \* useRef<number | null>: None or Some(handle)
  timers,           \* the timeouts scheduled by deleteTodo and not yet fired or cleared
  calls,            \* store commands in flight, in the order they were issued
  store,            \* the rows of the durable store, in list order
  created,          \* how many ids the store has assigned
  now,              \* the clock, in ms
  ticksLeft,        \* clock ticks the behaviour may still take
  opsLeft,          \* mutating user operations the behaviour may still take
  failuresLeft,     \* commands the store may still fail
  finalizes,        \* history: the delete commands dispatched, per snapshot
  undoBase,         \* history: None, or Some of the collection and the calls as they were before a
                    \* deleteTodo that nothing but the clock and the store's own work has followed
  evaluated,        \* None, or Some of the last call of isRecurringCycleChecked: todo, at, result
  restored,         \* history: the tasks undo() restored while their timer ran, not deleted since
  detailTitle,      \* useState<string>: the title field of the detail pane
  detailNote,       \* useState<string>: the note field of the detail pane
  settle,           \* the timeouts of the debounce effect not yet fired or cleared
  typed,            \* history: the fields typed into since the selection last changed and
                    \* since the debounce callback last ran
  abandoned,        \* history: the texts typed that the debounce callback had not seen when
                    \* the selection changed, that the fields have not shown since as the
                    \* text of a record, and that no keystroke has followed
  boot,             \* where loadApp stands
  legacy,           \* localStorage: what the legacy keys hold
  migrated,         \* the store's marker of a migration done
  last              \* the step that led to this state

vars == << todos, selectedTodoId, deletedSnapshot, errorMessage, undoTimer, timers,
           calls, store, created, now, ticksLeft, opsLeft, failuresLeft, finalizes, restored,
           undoBase, evaluated, detailTitle, detailNote, settle, typed, abandoned,
           boot, legacy, migrated,
           last >>

editVars == << detailTitle, detailNote, settle, typed, abandoned >>
bootVars == << boot, legacy >>

(* ------------------------------ helpers ------------------------------- *)

Ids(ts) == { ts[i].id : i \in 1..Len(ts) }

\* todos.some((todo) => todo.id === id)
Has(ts, id) == id \in Ids(ts)

\* todos.findIndex((todo) => todo.id === id), 0-based, -1 when absent
FindIndex(ts, id) ==
  IF Has(ts, id) THEN (CHOOSE i \in 1..Len(ts) : ts[i].id = id /\ \A j \in 1..(i - 1) : ts[j].id # id) - 1
  ELSE -1

\* todos.find((todo) => todo.id === id), for an id that is present
Find(ts, id) == ts[FindIndex(ts, id) + 1]

\* todos[0]?.id ?? null
FirstId(ts) == IF Len(ts) > 0 THEN ts[1].id ELSE Null

\* previous.map((todo) => (todo.id === id ? rec : todo))
MapReplace(ts, id, rec) == [i \in 1..Len(ts) |-> IF ts[i].id = id THEN rec ELSE ts[i]]

\* previous.filter((todo) => todo.id !== id)
FilterOut(ts, id) == SelectSeq(ts, LAMBDA t : t.id # id)

\* next.splice(index, 0, rec), index 0-based
Splice(ts, index, rec) == SubSeq(ts, 1, index) \o << rec >> \o SubSeq(ts, index + 1, Len(ts))

Min(a, b) == IF a < b THEN a ELSE b

\* { ...target, ...patch }: the fields of patch over those of target
Spread(target, patch) ==
  [f \in DOMAIN target |-> IF f \in DOMAIN patch THEN patch[f] ELSE target[f]]

\* s without its i-th element
RemoveAt(s, i) == SubSeq(s, 1, i - 1) \o SubSeq(s, i + 1, Len(s))

(* ------------------------ recurrence evaluator ------------------------ *)

\* offset of the local time zone from UTC, in ms
TzOffsetMs == 0

\* the local calendar date of an instant: getFullYear(), getMonth(), getDate()
LocalDays(ms) == (ms + TzOffsetMs) \div MsPerDay

CivilEra(z) == (z + 719468) \div 146097

CivilDoe(z) == (z + 719468) - CivilEra(z) * 146097

CivilYoe(z) ==
  (CivilDoe(z) - CivilDoe(z) \div 1460 + CivilDoe(z) \div 36524 - CivilDoe(z) \div 146096) \div 365

CivilDoy(z) == CivilDoe(z) - (365 * CivilYoe(z) + CivilYoe(z) \div 4 - CivilYoe(z) \div 100)

CivilMp(z) == (5 * CivilDoy(z) + 2) \div 153

getDate(ms) == CivilDoy(LocalDays(ms)) - (153 * CivilMp(LocalDays(ms)) + 2) \div 5 + 1

getMonth(ms) ==
  IF CivilMp(LocalDays(ms)) < 10 THEN CivilMp(LocalDays(ms)) + 2 ELSE CivilMp(LocalDays(ms)) - 10

getFullYear(ms) ==
  CivilYoe(LocalDays(ms)) + CivilEra(LocalDays(ms)) * 400 + (IF getMonth(ms) <= 1 THEN 1 ELSE 0)

\* every tag taken as recurring
isRecurringTag_Always(tag) == TRUE

isRecurringTag(tag) == tag # "none"

\* a rolling window of 24 hours instead of the calendar day
isSameLocalDay_Within24h(left, right) == right - left < MsPerDay /\ left - right < MsPerDay

isSameLocalDay(left, right) ==
  /\ getFullYear(left) = getFullYear(right)
  /\ getMonth(left) = getMonth(right)
  /\ getDate(left) = getDate(right)

\* every text taken as a timestamp
IsNaNTime_Never(ts) == FALSE

\* new Date(text).getTime() is NaN unless the text is a timestamp
IsNaNTime(ts) == ts.k # "iso"

\* the tag looked at before completed
isRecurringCycleChecked_TagFirst(todo, at) ==
  IF ~isRecurringTag(todo.recurrenceTag) THEN todo.completed
  ELSE IF todo.recurrenceCheckedAt.k \in {"null", "empty"} THEN FALSE
  ELSE IF IsNaNTime(todo.recurrenceCheckedAt) THEN FALSE
  ELSE IF todo.recurrenceTag = "daily" THEN isSameLocalDay(todo.recurrenceCheckedAt.ms, at)
  ELSE (at - todo.recurrenceCheckedAt.ms)
         < (IF todo.recurrenceTag = "weekly" THEN 7 ELSE 14) * MsPerDay

\* the window closed at its end: elapsedMs <= cycleDays * 24 * 60 * 60 * 1000
isRecurringCycleChecked_Inclusive(todo, at) ==
  IF todo.completed THEN TRUE
  ELSE IF ~isRecurringTag(todo.recurrenceTag) THEN todo.completed
  ELSE IF todo.recurrenceCheckedAt.k \in {"null", "empty"} THEN FALSE
  ELSE IF IsNaNTime(todo.recurrenceCheckedAt) THEN FALSE
  ELSE IF todo.recurrenceTag = "daily" THEN isSameLocalDay(todo.recurrenceCheckedAt.ms, at)
  ELSE (at - todo.recurrenceCheckedAt.ms)
         <= (IF todo.recurrenceTag = "weekly" THEN 7 ELSE 14) * MsPerDay

isRecurringCycleChecked(todo, at) ==
  IF todo.completed THEN TRUE
  ELSE IF ~isRecurringTag(todo.recurrenceTag) THEN todo.completed
  ELSE IF todo.recurrenceCheckedAt.k \in {"null", "empty"} THEN FALSE
  ELSE IF IsNaNTime(todo.recurrenceCheckedAt) THEN FALSE
  ELSE IF todo.recurrenceTag = "daily" THEN isSameLocalDay(todo.recurrenceCheckedAt.ms, at)
  ELSE (at - todo.recurrenceCheckedAt.ms)
         < (IF todo.recurrenceTag = "weekly" THEN 7 ELSE 14) * MsPerDay

(* --------------------------- durable store ---------------------------- *)

\* a row as the store writes it
NewRow(id, input, at) ==
  [ id |-> id, title |-> input.title, recurrenceTag |-> input.recurrenceTag,
    recurrenceCheckedAt |-> NullTime, note |-> << >>, completed |-> FALSE,
    dueDate |-> input.dueDate, createdAt |-> Iso(at), updatedAt |-> Iso(at) ]

SeedStore ==
  << NewRow("t1", [title |-> << "a" >>, recurrenceTag |-> "none", dueDate |-> Null], 0),
     NewRow("t2", [title |-> << "b" >>, recurrenceTag |-> "daily", dueDate |-> Null], 0) >>

MutationCmds == {"update_todo", "toggle_todo", "set_recurrence_check"}

\* the row of c.id after the store has carried out the mutation c at time at
StoreMutate(row, c, at) ==
  IF c.cmd = "update_todo" THEN Spread(Spread(row, c.input), [updatedAt |-> Iso(at)])
  ELSE IF c.cmd = "toggle_todo"
    THEN Spread(row, [completed |-> ~row.completed, updatedAt |-> Iso(at)])
  ELSE Spread(row, [recurrenceCheckedAt |-> IF c.input.checked THEN Iso(at) ELSE NullTime,
                    updatedAt |-> Iso(at)])

\* the command c can be carried out on the rows rs
StoreAccepts(rs, c) ==
  /\ c.cmd \in MutationCmds => Has(rs, c.id)
  /\ c.cmd = "create_todo" => created < Len(FreshIds)

MigrateCmd == "migrate_legacy_todos_if_needed"

\* the row the store writes for a legacy record: a recurrence field the record
\* lacks is none, null
MigrateRow(rec) ==
  [ id |-> rec.id, title |-> rec.title,
    recurrenceTag |-> IF "recurrenceTag" \in DOMAIN rec THEN rec.recurrenceTag ELSE "none",
    recurrenceCheckedAt |->
      IF "recurrenceCheckedAt" \in DOMAIN rec THEN rec.recurrenceCheckedAt ELSE NullTime,
    note |-> rec.note, completed |-> rec.completed, dueDate |-> rec.dueDate,
    createdAt |-> rec.createdAt, updatedAt |-> rec.updatedAt ]

\* a store that keeps no marker
StoreMarker_Never(marker, c) == FALSE

\* the marker of a migration done, after the command c: set once rows have
\* been transferred
StoreMarker(marker, c) ==
  marker \/ (c.cmd = MigrateCmd /\ Len(c.input.payload) > 0)

\* MigrationResult: nothing is transferred once the marker is set
MigrationResult(marker, payload) ==
  [ migratedCount |-> IF marker THEN 0 ELSE Len(payload), alreadyMigrated |-> marker ]

\* the rows after the command c
StoreRows(rs, c, at) ==
  IF c.cmd \in MutationCmds THEN MapReplace(rs, c.id, StoreMutate(Find(rs, c.id), c, at))
  ELSE IF c.cmd = "create_todo" THEN << NewRow(FreshIds[created + 1], c.input, at) >> \o rs
  ELSE IF c.cmd = "delete_todo" THEN FilterOut(rs, c.id)
  ELSE IF c.cmd = MigrateCmd /\ ~migrated
    THEN rs \o [k \in 1..Len(c.input.payload) |-> MigrateRow(c.input.payload[k])]
  ELSE rs

\* what the command c answers: the record, the list, the migration result, or nothing
StoreResult(rs, c, at) ==
  IF c.cmd \in MutationCmds THEN << Find(StoreRows(rs, c, at), c.id) >>
  ELSE IF c.cmd = "create_todo" THEN << StoreRows(rs, c, at)[1] >>
  ELSE IF c.cmd = "list_todos" THEN rs
  ELSE IF c.cmd = MigrateCmd THEN << MigrationResult(migrated, c.input.payload) >>
  ELSE << >>

\* a catch block that clears the message instead of setting it
ErrorText_Cleared(cmd) == Null

\* toErrorMessage(error) of the failure of a command
ErrorText(cmd) ==
  CASE cmd = "create_todo" -> "create failed"
    [] cmd = "update_todo" -> "update failed"
    [] cmd = "toggle_todo" -> "toggle failed"
    [] cmd = "set_recurrence_check" -> "check failed"
    [] cmd = "delete_todo" -> "delete failed"
    [] cmd = MigrateCmd -> "migrate failed"
    [] cmd \in {"get_window_prefs", "get_ui_prefs"} -> "prefs failed"
    [] OTHER -> "list failed"

(* --------------------------- calls in flight --------------------------- *)

\* invokeCommand(cmd, ...): a call waiting for the store. preferred and finalize
\* are what the continuation of a list call holds: the preferredId of
\* refreshTodos and the todoId of the finalizeDelete that awaits it.
Call(cmd, id, input, preferred, finalize) ==
  [ cmd |-> cmd, id |-> id, input |-> input, stage |-> "sent", result |-> << >>,
    preferred |-> preferred, finalize |-> finalize, stale |-> FALSE ]

NoInput == [none |-> TRUE]

updateTodoRecord(id, patch) == Call("update_todo", id, patch, Null, Null)

toggleTodoRecord(id) == Call("toggle_todo", id, NoInput, Null, Null)

setRecurrenceCheckRecord(id, checked) ==
  Call("set_recurrence_check", id, [checked |-> checked], Null, Null)

createTodoRecord(input) == Call("create_todo", Null, input, Null, Null)

deleteTodoRecord(id) == Call("delete_todo", id, NoInput, Null, Null)

listTodos(preferred, finalize) == Call("list_todos", Null, NoInput, preferred, finalize)

\* the selection-repair effect, run after every render
RepairSelection(ts, sel) == IF sel # Null /\ ~Has(ts, sel) THEN FirstId(ts) ELSE sel

\* no call: the step handled no response
NoCall == Call("none", Null, NoInput, Null, Null)

Step(op, id) == [op |-> op, id |-> id, call |-> NoCall]

(* ------------------------------- inputs -------------------------------- *)

\* what the user types into the title field of the create form
NewTitles == { << " " >>, << "c", " " >> }

\* the patches the detail pane issues for the selected task
PatchInputs == { [title |-> << "c" >>], [note |-> << "n" >>], [recurrenceTag |-> "weekly"] }

\* the fields of a patch that applyTodoPatch copies into the payload
Payload(patch) ==
  [f \in DOMAIN patch \cap {"title", "note", "recurrenceTag", "completed", "dueDate"} |-> patch[f]]

(* ------------------------------- startup ------------------------------- *)

\* where loadApp stands: pc is start, migrating, listing, ready or failed. The
\* other fields are history of this startup: how many migrate and list commands
\* it has dispatched, what localStorage held when it began, what it handed to
\* the migrate command, how that command was answered, and whether
\* clearLegacyLocalStorage has been called; and of the teardowns before it: how
\* many there were, and the task whose snapshot was pending, its grace timer
\* armed and not yet expired, when the last one ran.
Startup(pc, migrates, lists) ==
  [ pc |-> pc, migrates |-> migrates, lists |-> lists, source |-> None, payload |-> << >>,
    answer |-> "none", migratedCount |-> 0, alreadyMigrated |-> FALSE, cleared |-> FALSE,
    teardowns |-> 0, pending |-> Null ]

\* loadApp has run to its end
Booted == [Startup("ready", 1, 1) EXCEPT !.answer = "ok", !.alreadyMigrated = TRUE]

(* -------------------------------- Init --------------------------------- *)

\* the state once loadApp has listed the store: setTodos(initialTodos),
\* setSelectedTodoId(initialTodos[0]?.id ?? null)
Loaded(rows) ==
  /\ store = rows
  /\ todos = rows
  /\ selectedTodoId = FirstId(rows)
  /\ deletedSnapshot = None
  /\ errorMessage = Null
  /\ undoTimer = None
  /\ timers = {}
  /\ calls = << >>
  /\ created = 0
  /\ now = 0
  /\ finalizes = {}
  /\ restored = {}
  /\ undoBase = None
  /\ evaluated = None
  /\ detailTitle = (IF rows = << >> THEN << >> ELSE rows[1].title)
  /\ detailNote = (IF rows = << >> THEN << >> ELSE rows[1].note)
  /\ settle = {}
  /\ typed = {}
  /\ abandoned = {}
  /\ boot = Booted
  /\ legacy = None
  /\ migrated = TRUE
  /\ last = Step("init", Null)

Init ==
  /\ Loaded(SeedStore)
  /\ ticksLeft = MaxTicks
  /\ opsLeft = MaxOps
  /\ failuresLeft = MaxFailures

(* ---------------------------- user operations --------------------------- *)

CanDispatch == Len(calls) < MaxCalls

UserOp(op, id) ==
  /\ opsLeft > 0
  /\ opsLeft' = opsLeft - 1
  /\ last' = Step(op, id)
  /\ UNCHANGED << store, created, now, ticksLeft, failuresLeft, evaluated, editVars, bootVars, migrated >>

\* addTodo: nothing changes in memory until the store answers
AddTodo(newTitle, newRecurrenceTag, newDueDate) ==
  /\ UserOp("addTodo", Null)
  /\ IF Trim(newTitle) = << >>
       THEN UNCHANGED calls
       ELSE /\ CanDispatch
            /\ created + Cardinality({i \in 1..Len(calls) : calls[i].cmd = "create_todo"}) < MaxCreates
            /\ calls' = Append(calls, createTodoRecord(
                 [ title |-> Trim(newTitle), recurrenceTag |-> newRecurrenceTag,
                   dueDate |-> IF newDueDate = "" THEN Null ELSE newDueDate ]))
  /\ UNCHANGED << todos, selectedTodoId, deletedSnapshot, errorMessage, undoTimer, timers, finalizes, restored >>
  /\ undoBase' = None

\* applyTodoPatch without its optimistic write: the record waits for the store
OptimisticPatch_Deferred(target, patch, at) == target

\* the optimistic record of applyTodoPatch
OptimisticPatch(target, patch, at) == Spread(Spread(target, patch), [updatedAt |-> Iso(at)])

\* a toggle that also forgets the cycle check
OptimisticToggle_ClearsCheck(todo, at) ==
  Spread(todo, [completed |-> ~todo.completed, recurrenceCheckedAt |-> NullTime,
                updatedAt |-> Iso(at)])

\* the optimistic record of toggleTodo
OptimisticToggle(todo, at) ==
  Spread(todo, [completed |-> ~todo.completed, updatedAt |-> Iso(at)])

\* a cycle check that also completes the task
OptimisticCheck_Completes(target, checked, at) ==
  Spread(target, [recurrenceCheckedAt |-> IF checked THEN Iso(at) ELSE NullTime,
                  completed |-> checked, updatedAt |-> Iso(at)])

\* the optimistic record of setRecurringCycleCheck
OptimisticCheck(target, checked, at) ==
  Spread(target, [recurrenceCheckedAt |-> IF checked THEN Iso(at) ELSE NullTime,
                  updatedAt |-> Iso(at)])

\* the synchronous part of applyTodoPatch(todoId, patch)
applyTodoPatch(todoId, patch) ==
  IF ~Has(todos, todoId)
    THEN UNCHANGED << todos, calls >>
    ELSE /\ CanDispatch
         /\ todos' = MapReplace(todos, todoId, OptimisticPatch(Find(todos, todoId), patch, now))
         /\ calls' = Append(calls, updateTodoRecord(todoId, Payload(patch)))

\* the synchronous part of toggleTodo(todoId)
toggleTodo(todoId) ==
  IF ~Has(todos, todoId)
    THEN UNCHANGED << todos, calls >>
    ELSE /\ CanDispatch
         /\ todos' = [i \in 1..Len(todos) |->
               IF todos[i].id = todoId THEN OptimisticToggle(todos[i], now) ELSE todos[i]]
         /\ calls' = Append(calls, toggleTodoRecord(todoId))

\* a setRecurringCycleCheck that does not look at the tag
setRecurringCycleCheck_AnyTag(todoId, checked) ==
  IF ~Has(todos, todoId)
    THEN UNCHANGED << todos, calls >>
    ELSE /\ CanDispatch
         /\ todos' = MapReplace(todos, todoId, OptimisticCheck(Find(todos, todoId), checked, now))
         /\ calls' = Append(calls, setRecurrenceCheckRecord(todoId, checked))

\* the synchronous part of setRecurringCycleCheck(todoId, checked)
setRecurringCycleCheck(todoId, checked) ==
  IF ~Has(todos, todoId) \/ ~isRecurringTag(Find(todos, todoId).recurrenceTag)
    THEN UNCHANGED << todos, calls >>
    ELSE /\ CanDispatch
         /\ todos' = MapReplace(todos, todoId, OptimisticCheck(Find(todos, todoId), checked, now))
         /\ calls' = Append(calls, setRecurrenceCheckRecord(todoId, checked))

Unselected ==
  /\ UNCHANGED << selectedTodoId, deletedSnapshot, errorMessage, undoTimer, timers, finalizes, restored >>
  /\ undoBase' = None

\* the tag select of the detail pane
PatchSelected(patch) ==
  /\ selectedTodoId # Null
  /\ UserOp("applyTodoPatch", selectedTodoId)
  /\ applyTodoPatch(selectedTodoId, patch)
  /\ Unselected

\* the status button of the detail pane
ToggleSelected ==
  /\ selectedTodoId # Null
  /\ UserOp("toggleTodo", selectedTodoId)
  /\ toggleTodo(selectedTodoId)
  /\ Unselected

\* the cycle button of the detail pane, shown for an open recurring task
CheckSelected ==
  /\ selectedTodoId # Null
  /\ isRecurringTag(Find(todos, selectedTodoId).recurrenceTag)
  /\ ~Find(todos, selectedTodoId).completed
  /\ UserOp("setRecurringCycleCheck", selectedTodoId)
  /\ setRecurringCycleCheck(selectedTodoId, ~isRecurringCycleChecked(Find(todos, selectedTodoId), now))
  /\ Unselected

\* a checkbox that looks at the tag only
HandleChecklistToggle_TagOnly(todo) ==
  /\ IF ~isRecurringTag(todo.recurrenceTag)
       THEN /\ UserOp("toggleTodo", todo.id)
            /\ toggleTodo(todo.id)
       ELSE /\ UserOp("setRecurringCycleCheck", todo.id)
            /\ setRecurringCycleCheck(todo.id, ~isRecurringCycleChecked(todo, now))
  /\ Unselected

\* handleChecklistToggle(todo): the checkbox of a task of the list
HandleChecklistToggle(todo) ==
  /\ IF ~isRecurringTag(todo.recurrenceTag) \/ todo.completed
       THEN /\ UserOp("toggleTodo", todo.id)
            /\ toggleTodo(todo.id)
       ELSE /\ UserOp("setRecurringCycleCheck", todo.id)
            /\ setRecurringCycleCheck(todo.id, ~isRecurringCycleChecked(todo, now))
  /\ Unselected

\* handleTodoSelect(todoId)
HandleTodoSelect(todoId) ==
  /\ todoId # selectedTodoId
  /\ selectedTodoId' = todoId
  /\ last' = Step("select", todoId)
  /\ UNCHANGED << todos, deletedSnapshot, errorMessage, undoTimer, timers, calls,
                  store, created, now, ticksLeft, opsLeft, failuresLeft, finalizes, restored, evaluated,
                  editVars, bootVars, migrated >>
  /\ undoBase' = None

(* ------------------------------ soft delete ----------------------------- *)

\* a timeout scheduled by deleteTodo: its handle, the task it finalizes, its expiry.
\* The snapshot made by the same deleteTodo carries the handle too (h), which
\* no code reads: it tells the snapshots of one task apart.
Timer(h, id, fireAt) == [h |-> h, id |-> id, fireAt |-> fireAt]

\* window.clearTimeout(handle)
ClearTimeout(ts, ref) == IF ref = None THEN ts ELSE { t \in ts : t.h # ref[1] }

\* the synchronous part of finalizeDelete(todoId): the delete command is dispatched
finalizeDelete(cs, todoId) == Append(cs, deleteTodoRecord(todoId))

\* history: one more delete command dispatched for the snapshot h, by its timer
\* or by a superseding delete
Finalized(fs, h, by) ==
  IF \E f \in fs : f.h = h
    THEN { IF f.h = h THEN [f EXCEPT !.n = f.n + 1] ELSE f : f \in fs }
    ELSE fs \cup { [h |-> h, n |-> 1, by |-> by] }

\* a finally block that leaves the snapshot in place
ClearSnapshot_Kept(snap, todoId) == snap

\* the timer armed for the snapshot s is still running at the given time
Running(ts, s, at) == \E t \in ts : t.h = s.h /\ t.fireAt > at

\* the delete command of the pending snapshot has been dispatched
FinalizeOccurred == deletedSnapshot # None /\ \E f \in finalizes : f.h = deletedSnapshot[1].h

\* the finally block of finalizeDelete(todoId)
ClearSnapshot(snap, todoId) == IF snap # None /\ snap[1].todo.id = todoId THEN None ELSE snap

\* a deleteTodo that leaves the selection alone
SelectionAfterDelete_Kept(sel, todoId) == sel

\* if (selectedTodoId === todoId) setSelectedTodoId(null), in deleteTodo
SelectionAfterDelete(sel, todoId) == IF sel = todoId THEN Null ELSE sel

\* deleteTodo(todoId); h is the handle of the timeout it schedules
deleteTodo(todoId, h) ==
  LET pending == deletedSnapshot # None
      timers1 == IF pending THEN ClearTimeout(timers, undoTimer) ELSE timers
      undoTimer1 == IF pending THEN None ELSE undoTimer
      calls1 == IF pending THEN finalizeDelete(calls, deletedSnapshot[1].todo.id) ELSE calls
      index == FindIndex(todos, todoId)
  IN /\ pending => CanDispatch
     /\ calls' = calls1
     /\ finalizes' = IF pending THEN Finalized(finalizes, deletedSnapshot[1].h, "superseded")
                     ELSE finalizes
     /\ IF index = -1
          THEN /\ deletedSnapshot' = None
               /\ undoTimer' = undoTimer1
               /\ timers' = timers1
               /\ UNCHANGED << todos, selectedTodoId >>
          ELSE /\ todos' = FilterOut(todos, todoId)
               /\ selectedTodoId' = RepairSelection(todos', SelectionAfterDelete(selectedTodoId, todoId))
               /\ deletedSnapshot' = Some([todo |-> todos[index + 1], index |-> index, h |-> h])
               /\ undoTimer' = Some(h)
               /\ timers' = timers1 \cup { Timer(h, todoId, now + UndoGraceMs) }
     /\ restored' = IF index = -1 THEN restored ELSE restored \ {todoId}
     /\ undoBase' = IF index = -1 THEN None ELSE Some([todos |-> todos, calls |-> calls])
     /\ UNCHANGED errorMessage

\* the Delete button of the detail pane
DeleteSelected ==
  /\ selectedTodoId # Null
  /\ UserOp("deleteTodo", selectedTodoId)
  /\ deleteTodo(selectedTodoId, opsLeft)

\* undoDelete()
undoDelete ==
  IF deletedSnapshot = None
    THEN UNCHANGED << todos, selectedTodoId, deletedSnapshot, undoTimer, timers >>
    ELSE /\ timers' = ClearTimeout(timers, undoTimer)
         /\ undoTimer' = None
         /\ todos' = Splice(todos, Min(deletedSnapshot[1].index, Len(todos)), deletedSnapshot[1].todo)
         /\ selectedTodoId' = deletedSnapshot[1].todo.id
         /\ deletedSnapshot' = None

\* the Undo button of the toast, shown while a snapshot exists
UndoDelete ==
  /\ deletedSnapshot # None
  /\ UserOp("undoDelete", deletedSnapshot[1].todo.id)
  /\ undoDelete
  /\ restored' = IF Running(timers, deletedSnapshot[1], now) /\ ~FinalizeOccurred
                    THEN restored \cup {deletedSnapshot[1].todo.id}
                    ELSE restored
  /\ undoBase' = None
  /\ UNCHANGED << errorMessage, calls, finalizes >>

\* the callback of the grace timer
TimerFire(t) ==
  /\ t \in timers
  /\ now >= t.fireAt
  /\ CanDispatch
  /\ calls' = finalizeDelete(calls, t.id)
  /\ finalizes' = Finalized(finalizes, t.h, "timer")
  /\ undoTimer' = None
  /\ timers' = timers \ {t}
  /\ last' = Step("timer", t.id)
  /\ UNCHANGED << todos, selectedTodoId, deletedSnapshot, errorMessage, store, created, now,
                  ticksLeft, opsLeft, failuresLeft, restored, evaluated, editVars, bootVars, migrated >>
  /\ undoBase' = None

\* the expiries of the timeouts that run: the grace timers and the debounce timers
Expiries == { t.fireAt : t \in timers } \cup { t.fireAt : t \in settle }

\* time passes: d ms, or up to the next expiry
Tick(d) ==
  /\ ticksLeft > 0
  /\ \A x \in Expiries : x > now
  /\ now' = IF \E x \in Expiries : x < now + d
              THEN CHOOSE x \in Expiries : \A y \in Expiries : x <= y
              ELSE now + d
  /\ ticksLeft' = ticksLeft - 1
  /\ last' = Step("tick", Null)
  /\ UNCHANGED << todos, selectedTodoId, deletedSnapshot, errorMessage, undoTimer, timers,
                  calls, store, created, opsLeft, failuresLeft, finalizes, restored, undoBase, evaluated,
                  editVars, bootVars, migrated >>

(* --------------------------- the store answers -------------------------- *)

\* the store carries out the i-th call in flight, or fails it
StoreAnswer(i, ok) ==
  /\ i \in 1..Len(calls)
  /\ calls[i].stage = "sent"
  /\ IF ok
       THEN /\ StoreAccepts(store, calls[i])
            /\ store' = StoreRows(store, calls[i], now)
            /\ created' = IF calls[i].cmd = "create_todo" THEN created + 1 ELSE created
            /\ migrated' = StoreMarker(migrated, calls[i])
            /\ calls' = [calls EXCEPT ![i].stage = "ok", ![i].result = StoreResult(store, calls[i], now)]
            /\ UNCHANGED failuresLeft
       ELSE /\ failuresLeft > 0 \/ ~StoreAccepts(store, calls[i])
            /\ failuresLeft' = IF StoreAccepts(store, calls[i]) THEN failuresLeft - 1 ELSE failuresLeft
            /\ calls' = [calls EXCEPT ![i].stage = "err"]
            /\ UNCHANGED << store, created, migrated >>
  /\ last' = Step("store", calls[i].id)
  /\ UNCHANGED << todos, selectedTodoId, deletedSnapshot, errorMessage, undoTimer, timers,
                  now, ticksLeft, opsLeft, finalizes, restored, undoBase, evaluated,
                  editVars, bootVars >>

(* ------------------------- responses are handled ------------------------ *)

\* the calls left once the i-th is answered; the earlier mutations of the same
\* task still in flight are marked as older than an applied response
Settle(cs, i, applied) ==
  RemoveAt([j \in 1..Len(cs) |->
              IF applied /\ j < i /\ cs[j].id = cs[i].id /\ cs[j].cmd \in MutationCmds
                THEN [cs[j] EXCEPT !.stale = TRUE] ELSE cs[j]], i)

\* refreshTodos ignoring its preferredId
RefreshSelection_NoPreferred(nextTodos, preferredId, currentId) ==
  IF currentId # Null /\ Has(nextTodos, currentId) THEN currentId ELSE FirstId(nextTodos)

\* refreshTodos without the fallback to the first item
RefreshSelection_NoFallback(nextTodos, preferredId, currentId) ==
  LET candidate == IF preferredId # Null THEN preferredId ELSE currentId
  IN IF candidate # Null /\ Has(nextTodos, candidate) THEN candidate ELSE Null

\* setSelectedTodoId((currentId) => ...) of refreshTodos(preferredId)
RefreshSelection(nextTodos, preferredId, currentId) ==
  LET candidate == IF preferredId # Null THEN preferredId ELSE currentId
  IN IF candidate # Null /\ Has(nextTodos, candidate) THEN candidate ELSE FirstId(nextTodos)

\* the response merged into the optimistic record instead of replacing it
ApplySaved_KeepStamp(ts, id, saved) ==
  MapReplace(ts, id, Spread(saved, [updatedAt |-> Find(ts, id).updatedAt]))

\* setTodos((previous) => previous.map(...)) with the record the store returned
ApplySaved(ts, id, saved) == MapReplace(ts, id, saved)

\* the catch block retrying the command instead of refreshing
RefreshAfterFailure_Retry(c) == Call(c.cmd, c.id, c.input, Null, Null)

\* the catch block of a mutation: refreshTodos(todoId)
RefreshAfterFailure(c) == listTodos(c.id, Null)

\* addTodo continues after createTodoRecord
CreateAnswered(i) ==
  /\ calls[i].cmd = "create_todo"
  /\ IF calls[i].stage = "ok"
       THEN /\ todos' = << calls[i].result[1] >> \o todos
            /\ selectedTodoId' = calls[i].result[1].id
            /\ errorMessage' = Null
       ELSE /\ errorMessage' = ErrorText(calls[i].cmd)
            /\ UNCHANGED << todos, selectedTodoId >>
  /\ calls' = Settle(calls, i, FALSE)
  /\ UNCHANGED deletedSnapshot

\* applyTodoPatch, toggleTodo and setRecurringCycleCheck continue after their command
MutationAnswered(i) ==
  /\ calls[i].cmd \in MutationCmds
  /\ IF calls[i].stage = "ok"
       THEN /\ todos' = ApplySaved(todos, calls[i].id, calls[i].result[1])
            /\ errorMessage' = Null
            /\ calls' = Settle(calls, i, TRUE)
       ELSE /\ errorMessage' = ErrorText(calls[i].cmd)
            /\ calls' = Append(Settle(calls, i, FALSE), RefreshAfterFailure(calls[i]))
            /\ UNCHANGED todos
  /\ UNCHANGED << selectedTodoId, deletedSnapshot >>

\* finalizeDelete continues after deleteTodoRecord
DeleteAnswered(i) ==
  /\ calls[i].cmd = "delete_todo"
  /\ IF calls[i].stage = "ok"
       THEN /\ errorMessage' = Null
            /\ deletedSnapshot' = ClearSnapshot(deletedSnapshot, calls[i].id)
            /\ calls' = Settle(calls, i, FALSE)
       ELSE /\ errorMessage' = ErrorText(calls[i].cmd)
            /\ calls' = Append(Settle(calls, i, FALSE), listTodos(Null, calls[i].id))
            /\ UNCHANGED deletedSnapshot
  /\ UNCHANGED << todos, selectedTodoId >>

\* refreshTodos continues after listTodos, and then the finally block of the
\* finalizeDelete that awaited it, if any
ListAnswered(i) ==
  /\ calls[i].cmd = "list_todos"
  /\ IF calls[i].stage = "ok"
       THEN /\ todos' = calls[i].result
            /\ selectedTodoId' = RefreshSelection(calls[i].result, calls[i].preferred, selectedTodoId)
       ELSE UNCHANGED << todos, selectedTodoId >>
  /\ deletedSnapshot' =
       IF calls[i].finalize # Null THEN ClearSnapshot(deletedSnapshot, calls[i].finalize)
       ELSE deletedSnapshot
  /\ calls' = Settle(calls, i, FALSE)
  /\ UNCHANGED errorMessage

\* the response of the i-th call reaches the handler that awaits it
Answered(i) ==
  /\ i \in 1..Len(calls)
  /\ calls[i].stage # "sent"
  /\ \/ CreateAnswered(i)
     \/ MutationAnswered(i)
     \/ DeleteAnswered(i)
     \/ ListAnswered(i)
  /\ last' = [op |-> "response", id |-> calls[i].id, call |-> calls[i]]
  /\ UNCHANGED << undoTimer, timers, store, created, now, ticksLeft, opsLeft, failuresLeft,
                  finalizes, restored, evaluated, bootVars, migrated >>
  /\ undoBase' = None

\* the detail pane is not followed: its patches are drawn from PatchInputs
Receive(i) ==
  /\ Answered(i)
  /\ UNCHANGED editVars

(* -------------------------------- Next --------------------------------- *)

Next ==
  \/ \E t \in NewTitles : AddTodo(t, "weekly", "2024-05-01")
  \/ \E p \in PatchInputs : PatchSelected(p)
  \/ ToggleSelected
  \/ CheckSelected
  \/ \E i \in 1..Len(todos) : HandleChecklistToggle(todos[i])
  \/ \E id \in Ids(todos) : HandleTodoSelect(id)
  \/ DeleteSelected
  \/ UndoDelete
  \/ \E t \in timers : TimerFire(t)
  \/ Tick(TickMs)
  \/ \E i \in 1..Len(calls), ok \in BOOLEAN : StoreAnswer(i, ok)
  \/ \E i \in 1..Len(calls) : Receive(i)

Spec == Init /\ [][Next]_vars

(* ----------------- the soft-delete manager, explored deeper ------------- *)

\* user operations, clock ticks and store failures of a soft-delete behaviour
DelOps == 5
DelTicks == 2
DelFailures == 1

SeedStore3 ==
  Append(SeedStore,
         NewRow("t3", [title |-> << "c" >>, recurrenceTag |-> "weekly", dueDate |-> Null], 0))

InitDelete ==
  /\ Loaded(SeedStore3)
  /\ ticksLeft = DelTicks
  /\ opsLeft = DelOps
  /\ failuresLeft = DelFailures

NextDelete ==
  \/ \E id \in Ids(todos) : HandleTodoSelect(id)
  \/ DeleteSelected
  \/ UndoDelete
  \/ \E t \in timers : TimerFire(t)
  \/ Tick(UndoGraceMs)
  \/ \E i \in 1..Len(calls), ok \in BOOLEAN : StoreAnswer(i, ok)
  \/ \E i \in 1..Len(calls) : Receive(i)

SpecDelete == InitDelete /\ [][NextDelete]_vars

(* ------------------- the recurrence evaluator, applied ------------------ *)

\* user operations, clock ticks and store failures of an evaluator behaviour
CycleOps == 1
CycleTicks == 1
CycleFailures == 1

\* values of recurrenceCheckedAt: null, the empty string, a text that is no
\* timestamp, 00:00:00 and 23:59:59 of the first day, and a day 15 days later
CycleCheckedAts ==
  { NullTime, [k |-> "empty", ms |-> 0], [k |-> "text", ms |-> 0],
    Iso(0), Iso(MsPerDay - 1000), Iso(15 * MsPerDay) }

\* values of now: around the first midnight, and around 7 and 14 days
CycleNows ==
  { MsPerDay - 1000, MsPerDay + 1000,
    7 * MsPerDay - 3600000, 7 * MsPerDay - 1, 7 * MsPerDay, 7 * MsPerDay + 3600000,
    14 * MsPerDay - 1, 14 * MsPerDay }

\* the row of a task with the given tag, completed and recurrenceCheckedAt
CycleRow(tag, completed, checkedAt) ==
  Spread(NewRow("t1", [title |-> << "a" >>, recurrenceTag |-> tag, dueDate |-> Null], 0),
         [completed |-> completed, recurrenceCheckedAt |-> checkedAt])

\* the list draws the i-th task: const cycleChecked = isRecurringCycleChecked(todo)
Render(i) ==
  /\ i \in 1..Len(todos)
  /\ evaluated' = Some([ todo |-> todos[i], at |-> now,
                         result |-> isRecurringCycleChecked(todos[i], now) ])
  /\ last' = Step("render", todos[i].id)
  /\ UNCHANGED << todos, selectedTodoId, deletedSnapshot, errorMessage, undoTimer, timers,
                  calls, store, created, now, ticksLeft, opsLeft, failuresLeft, finalizes,
                  restored, undoBase, editVars, bootVars, migrated >>

InitCycle ==
  /\ \E tag \in RecurrenceTags, completed \in BOOLEAN, checkedAt \in CycleCheckedAts :
       /\ store = << CycleRow(tag, completed, checkedAt) >>
       /\ todos = store
  /\ selectedTodoId = "t1"
  /\ deletedSnapshot = None
  /\ errorMessage = Null
  /\ undoTimer = None
  /\ timers = {}
  /\ calls = << >>
  /\ created = 0
  /\ now \in CycleNows
  /\ finalizes = {}
  /\ restored = {}
  /\ undoBase = None
  /\ evaluated = None
  /\ detailTitle = todos[1].title
  /\ detailNote = todos[1].note
  /\ settle = {}
  /\ typed = {}
  /\ abandoned = {}
  /\ boot = Booted
  /\ legacy = None
  /\ migrated = TRUE
  /\ last = Step("init", Null)
  /\ ticksLeft = CycleTicks
  /\ opsLeft = CycleOps
  /\ failuresLeft = CycleFailures

NextCycle ==
  \/ \E i \in 1..Len(todos) : Render(i)
  \/ \E i \in 1..Len(todos) : HandleChecklistToggle(todos[i])
  \/ Tick(MsPerDay)
  \/ \E i \in 1..Len(calls), ok \in BOOLEAN : StoreAnswer(i, ok)
  \/ \E i \in 1..Len(calls) : Receive(i)

SpecCycle == InitCycle /\ [][NextCycle]_vars

(* --------------------- the detail pane, edits debounced ------------------ *)

\* keystrokes, clock ticks and store failures of an editing behaviour
EditOps == 2
EditTicks == 4
EditFailures == 1

\* the delay of the debounce timeout, and the clock step of an editing behaviour
SettleMs == 220
EditTickMs == 110

\* what a keystroke leaves in the title field, and in the note field
EditTitles == { << >>, << " " >>, << "a" >>, << "c" >>, << "c", " " >> }
EditNotes == { << >>, << "n" >> }

\* const selectedTodo = todos.find((todo) => todo.id === selectedTodoId) ?? null
selectedTodo(ts, id) == IF Has(ts, id) THEN Some(Find(ts, id)) ELSE None

\* a debounce timeout that expires at once
SettleAt_Immediate(at) == at

\* window.setTimeout(..., 220): the expiry of a timeout scheduled at time at
SettleAt(at) == at + SettleMs

\* the timeout the debounce effect schedules: its callback closes over the
\* selectedTodo, detailTitle and detailNote of the render. armedAt is history.
Debounce(todo, title, note, at) ==
  [ fireAt |-> SettleAt(at), armedAt |-> at, todo |-> todo, title |-> title, note |-> note ]

\* a detail sync effect that keeps what was typed
SyncDetail_Keep(text, moved, field) == text

\* the detail sync effect: when selectedTodoId has changed the field is reset to
\* selectedTodo?.[field] ?? ''
SyncDetail(text, moved, field) ==
  IF ~moved THEN text
  ELSE IF selectedTodo(todos', selectedTodoId') = None THEN << >>
  ELSE selectedTodo(todos', selectedTodoId')[1][field]

\* history: the texts typed that wait for the debounce callback and differ from
\* the selected record, the title trimmed as the callback compares it
PendingEdit ==
  IF selectedTodo(todos, selectedTodoId) = None THEN {}
  ELSE { [f |-> "title", text |-> Trim(detailTitle)] :
           x \in { y \in typed : /\ y = "title"
                                  /\ Trim(detailTitle) # selectedTodo(todos, selectedTodoId)[1].title } }
       \cup { [f |-> "note", text |-> detailNote] :
                x \in { y \in typed : /\ y = "note"
                                       /\ detailNote # selectedTodo(todos, selectedTodoId)[1].note } }

\* the effects after a render that left title and note in the fields and the
\* timeouts running: the detail sync effect, then the debounce effect, whose
\* cleanup clears the timeout of the render before whenever detailTitle,
\* detailNote or selectedTodo has changed (fresh: selectedTodo is a new object)
DetailEffects(title, note, fresh, running) ==
  LET moved == selectedTodoId' # selectedTodoId
      sel == selectedTodo(todos', selectedTodoId')
      changed == \/ fresh
                 \/ sel # selectedTodo(todos, selectedTodoId)
                 \/ SyncDetail(title, moved, "title") # detailTitle
                 \/ SyncDetail(note, moved, "note") # detailNote
  IN /\ detailTitle' = SyncDetail(title, moved, "title")
     /\ detailNote' = SyncDetail(note, moved, "note")
     /\ settle' = IF ~changed THEN running
                  ELSE IF sel = None THEN {}
                  ELSE { Debounce(sel[1], detailTitle', detailNote', now) }
     /\ abandoned' = IF title # detailTitle \/ note # detailNote THEN {}
                     ELSE IF moved
                       THEN { e \in abandoned \cup PendingEdit :
                                e.text # (IF e.f = "title" THEN Trim(detailTitle') ELSE detailNote') }
                     ELSE abandoned
     /\ typed' = IF moved THEN {}
                 ELSE typed \cup { f \in {"title"} : title # detailTitle }
                            \cup { f \in {"note"} : note # detailNote }

\* the effects after the render that follows the debounce callback, which has
\* seen what was typed
SettledEffects(fresh, running) ==
  /\ detailTitle' = detailTitle
  /\ detailNote' = detailNote
  /\ settle' = IF ~fresh THEN running
               ELSE { Debounce(selectedTodo(todos', selectedTodoId')[1], detailTitle, detailNote, now) }
  /\ abandoned' = abandoned
  /\ typed' = {}

\* what a step of the detail pane leaves alone
EditStep(op, id) ==
  /\ last' = Step(op, id)
  /\ undoBase' = None
  /\ UNCHANGED << deletedSnapshot, errorMessage, undoTimer, timers, store, created, now,
                  ticksLeft, failuresLeft, finalizes, restored, evaluated, bootVars, migrated >>

\* a keystroke in the title field: onChange, setDetailTitle(event.target.value)
TypeTitle(text) ==
  /\ selectedTodo(todos, selectedTodoId) # None
  /\ text # detailTitle
  /\ opsLeft > 0
  /\ opsLeft' = opsLeft - 1
  /\ EditStep("typeTitle", selectedTodoId)
  /\ UNCHANGED << todos, selectedTodoId, calls >>
  /\ DetailEffects(text, detailNote, FALSE, settle)

\* a keystroke in the note field: onChange, setDetailNote(event.target.value)
TypeNote(text) ==
  /\ selectedTodo(todos, selectedTodoId) # None
  /\ text # detailNote
  /\ opsLeft > 0
  /\ opsLeft' = opsLeft - 1
  /\ EditStep("typeNote", selectedTodoId)
  /\ UNCHANGED << todos, selectedTodoId, calls >>
  /\ DetailEffects(detailTitle, text, FALSE, settle)

\* the title patch of the debounce callback, if any
TitlePatch(title, todo) ==
  IF Len(Trim(title)) > 0 /\ Trim(title) # todo.title
    THEN << [title |-> Trim(title)] >>
    ELSE << >>

\* the note patch of the debounce callback, if any
NotePatch(note, todo) ==
  IF note # todo.note THEN << [note |-> note] >> ELSE << >>

\* the callback of the debounce timeout s: applyTodoPatch for the title, then for
\* the note, both with the todos of the render that scheduled s
SettleFire(s) ==
  /\ s \in settle
  /\ now >= s.fireAt
  /\ EditStep("settle", s.todo.id)
  /\ UNCHANGED << selectedTodoId, opsLeft >>
  /\ LET patches == TitlePatch(s.title, s.todo) \o NotePatch(s.note, s.todo)
     IN /\ Len(calls) + Len(patches) <= MaxCalls
        /\ calls' = calls \o [k \in 1..Len(patches) |->
                                updateTodoRecord(s.todo.id, Payload(patches[k]))]
        /\ todos' = IF patches = << >> THEN todos
                    ELSE MapReplace(todos, s.todo.id,
                                    OptimisticPatch(s.todo, patches[Len(patches)], now))
        /\ SettledEffects(patches # << >>, settle \ {s})

\* handleTodoSelect(todoId), and the effects of the render that follows
EditSelect(todoId) ==
  /\ todoId # selectedTodoId
  /\ selectedTodoId' = todoId
  /\ EditStep("select", todoId)
  /\ UNCHANGED << todos, calls, opsLeft >>
  /\ DetailEffects(detailTitle, detailNote, FALSE, settle)

\* the response of the i-th call is handled, and the effects of the render that
\* follows run: a saved record or a refreshed list is a new selectedTodo
EditReceive(i) ==
  /\ Answered(i)
  /\ DetailEffects(detailTitle, detailNote,
                   /\ calls[i].stage = "ok"
                   /\ \/ calls[i].cmd = "list_todos"
                      \/ calls[i].cmd \in MutationCmds /\ calls[i].id = selectedTodoId',
                   settle)

InitEdit ==
  /\ Loaded(SeedStore)
  /\ ticksLeft = EditTicks
  /\ opsLeft = EditOps
  /\ failuresLeft = EditFailures

NextEdit ==
  \/ \E text \in EditTitles : TypeTitle(text)
  \/ \E text \in EditNotes : TypeNote(text)
  \/ \E id \in Ids(todos) : EditSelect(id)
  \/ \E s \in settle : SettleFire(s)
  \/ \E t \in NewTitles : AddTodo(t, "none", Null)
  \/ Tick(EditTickMs)
  \/ \E i \in 1..Len(calls), ok \in BOOLEAN : StoreAnswer(i, ok)
  \/ \E i \in 1..Len(calls) : EditReceive(i)

SpecEdit == InitEdit /\ [][NextEdit]_vars

(* --------------------------- startup, migration -------------------------- *)

\* restarts and store failures of a startup behaviour
BootRuns == 1
BootFailures == 1

\* a record of the legacy format with neither recurrence field
LegacyRecord(id, title) ==
  [ id |-> id, title |-> title, note |-> << >>, completed |-> FALSE, dueDate |-> Null,
    createdAt |-> Iso(0), updatedAt |-> Iso(0) ]

\* { ...a, ...b }
SpreadInto(a, b) ==
  [f \in DOMAIN a \cup DOMAIN b |-> IF f \in DOMAIN b THEN b[f] ELSE a[f]]

\* what the array under TODOS_KEY may hold: a record with neither recurrence
\* field, one with both, one with a tag and no recurrenceCheckedAt, one tagged
\* weekly, and an object that is no task
LegacyOld == LegacyRecord("l1", << "x" >>)
LegacyBoth ==
  SpreadInto(LegacyRecord("l2", << "y" >>), [recurrenceTag |-> "daily", recurrenceCheckedAt |-> Iso(0)])
LegacyTagged == SpreadInto(LegacyRecord("l3", << "z" >>), [recurrenceTag |-> "bi-weekly"])
LegacyWeekly ==
  SpreadInto(LegacyRecord("l4", << "w" >>), [recurrenceTag |-> "weekly", recurrenceCheckedAt |-> NullTime])
LegacyOther == [id |-> "l5"]

\* what localStorage may hold under TODOS_KEY: nothing, a text that is no JSON,
\* JSON that is no array, or an array
LegacySources ==
  { None, Some([k |-> "text", items |-> << >>]), Some([k |-> "object", items |-> << >>]),
    Some([k |-> "array", items |-> << >>]),
    Some([k |-> "array", items |-> << LegacyOld >>]),
    Some([k |-> "array", items |-> << LegacyBoth, LegacyTagged >>]),
    Some([k |-> "array", items |-> << LegacyWeekly >>]),
    Some([k |-> "array", items |-> << LegacyOther, LegacyOld >>]) }

\* isRecurrenceTag(value) of the storage module
isRecurrenceTag(value) == value \in {"none", "daily", "bi-weekly"}

\* isLegacyTodoLike(value): the typeof tests are modelled by the presence of the field
isLegacyTodoLike(value) ==
  /\ {"id", "title", "note", "completed", "dueDate", "createdAt", "updatedAt"} \subseteq DOMAIN value
  /\ "recurrenceTag" \notin DOMAIN value \/ isRecurrenceTag(value.recurrenceTag)

\* (todo) => ({ ...todo, recurrenceTag: todo.recurrenceTag ?? 'none' })
NormalizeLegacy(todo) ==
  SpreadInto(todo,
    [ recurrenceTag |-> IF "recurrenceTag" \in DOMAIN todo THEN todo.recurrenceTag ELSE "none" ])

\* loadLegacyTodosFromLocalStorage(): [] when the key is absent, when the text
\* does not parse and when it is no array
loadLegacyTodosFromLocalStorage(source) ==
  IF source = None \/ source[1].k # "array" THEN << >>
  ELSE LET kept == SelectSeq(source[1].items, isLegacyTodoLike)
       IN [k \in 1..Len(kept) |-> NormalizeLegacy(kept[k])]

migrateLegacyTodosIfNeeded(payload) == Call(MigrateCmd, Null, [payload |-> payload], Null, Null)

getWindowPrefs == Call("get_window_prefs", Null, NoInput, Null, Null)

getUiPrefs == Call("get_ui_prefs", Null, NoInput, Null, Null)

\* a policy that looks at the answer only
ShouldClear_AnswerOnly(legacyTodos, migration) ==
  migration.migratedCount > 0 \/ migration.alreadyMigrated

\* a policy that always clears
ShouldClear_Always(legacyTodos, migration) == TRUE

\* legacyTodos.length > 0 && (migration.migratedCount > 0 || migration.alreadyMigrated)
ShouldClear(legacyTodos, migration) ==
  Len(legacyTodos) > 0 /\ (migration.migratedCount > 0 \/ migration.alreadyMigrated)

\* a loadApp that reads the list whatever the migrate command answered
AfterMigrate_Always(stage) == << listTodos(Null, Null), getWindowPrefs, getUiPrefs >>

\* what loadApp dispatches once the migrate command is answered: Promise.all of
\* listTodos(), getWindowPrefs(), getUiPrefs() after a success, nothing after a failure
AfterMigrate(stage) ==
  IF stage = "ok" THEN << listTodos(Null, Null), getWindowPrefs, getUiPrefs >> ELSE << >>

\* what a step of loadApp leaves alone
BootStep(op) ==
  /\ last' = Step(op, Null)
  /\ UNCHANGED << deletedSnapshot, undoTimer, timers, store, created, now, ticksLeft,
                  failuresLeft, finalizes, restored, undoBase, evaluated, migrated >>

\* loadApp up to its first await: the legacy records are read and handed to the
\* migrate command
StartApp ==
  /\ boot.pc = "start"
  /\ calls' = Append(calls, migrateLegacyTodosIfNeeded(loadLegacyTodosFromLocalStorage(legacy)))
  /\ boot' = [boot EXCEPT !.pc = "migrating", !.migrates = @ + 1, !.source = legacy,
                          !.payload = loadLegacyTodosFromLocalStorage(legacy)]
  /\ BootStep("loadApp")
  /\ UNCHANGED << todos, selectedTodoId, errorMessage, opsLeft, legacy, editVars >>

\* loadApp continues after await migrateLegacyTodosIfNeeded(legacyTodos), or its
\* catch and finally blocks run
MigrateAnswered(i) ==
  /\ i \in 1..Len(calls)
  /\ calls[i].cmd = MigrateCmd
  /\ calls[i].stage # "sent"
  /\ boot.pc = "migrating"
  /\ IF calls[i].stage = "ok"
       THEN LET migration == calls[i].result[1]
                clear == ShouldClear(calls[i].input.payload, migration)
            IN /\ legacy' = IF clear THEN None ELSE legacy
               /\ boot' = [boot EXCEPT !.pc = "listing", !.answer = "ok",
                                       !.migratedCount = migration.migratedCount,
                                       !.alreadyMigrated = migration.alreadyMigrated,
                                       !.cleared = clear,
                                       !.lists = @ + 1]
               /\ UNCHANGED errorMessage
       ELSE /\ errorMessage' = ErrorText(MigrateCmd)
            /\ boot' = [boot EXCEPT !.pc = IF AfterMigrate("err") = << >> THEN "failed" ELSE "listing",
                                    !.answer = "err",
                                    !.lists = @ + (IF AfterMigrate("err") = << >> THEN 0 ELSE 1)]
            /\ UNCHANGED legacy
  /\ calls' = RemoveAt(calls, i) \o AfterMigrate(calls[i].stage)
  /\ last' = [op |-> "response", id |-> Null, call |-> calls[i]]
  /\ UNCHANGED << todos, selectedTodoId, opsLeft, editVars,
                  deletedSnapshot, undoTimer, timers, store, created, now, ticksLeft,
                  failuresLeft, finalizes, restored, undoBase, evaluated, migrated >>

\* Promise.all has resolved: loadApp shows the list, and the effects of the
\* render run
LoadSucceeded ==
  /\ boot.pc = "listing"
  /\ Len(calls) = 3
  /\ \A i \in 1..Len(calls) : calls[i].stage = "ok"
  /\ \E i \in 1..Len(calls) :
       /\ calls[i].cmd = "list_todos"
       /\ todos' = calls[i].result
       /\ selectedTodoId' = FirstId(calls[i].result)
  /\ calls' = << >>
  /\ boot' = [boot EXCEPT !.pc = "ready"]
  /\ BootStep("loaded")
  /\ DetailEffects(detailTitle, detailNote, TRUE, settle)
  /\ UNCHANGED << errorMessage, opsLeft, legacy >>

\* Promise.all has rejected with the failure of the i-th call: the catch block
\* sets the message, and nothing awaits the other calls
LoadFailed(i) ==
  /\ boot.pc = "listing"
  /\ i \in 1..Len(calls)
  /\ calls[i].stage = "err"
  /\ errorMessage' = ErrorText(calls[i].cmd)
  /\ calls' = << >>
  /\ boot' = [boot EXCEPT !.pc = "failed"]
  /\ BootStep("loadFailed")
  /\ UNCHANGED << todos, selectedTodoId, opsLeft, legacy, editVars >>

\* the window is closed, at any point after loadApp has begun, and the
\* application started again: the store and localStorage are what is left
Restart ==
  /\ boot.pc # "start"
  /\ opsLeft > 0
  /\ opsLeft' = opsLeft - 1
  /\ todos' = << >>
  /\ selectedTodoId' = Null
  /\ errorMessage' = Null
  /\ calls' = << >>
  /\ detailTitle' = << >>
  /\ detailNote' = << >>
  /\ settle' = {}
  /\ typed' = {}
  /\ abandoned' = {}
  /\ boot' = Startup("start", 0, 0)
  /\ BootStep("restart")
  /\ UNCHANGED legacy

InitBoot ==
  /\ todos = << >>
  /\ selectedTodoId = Null
  /\ deletedSnapshot = None
  /\ errorMessage = Null
  /\ undoTimer = None
  /\ timers = {}
  /\ calls = << >>
  /\ created = 0
  /\ now = 0
  /\ finalizes = {}
  /\ restored = {}
  /\ undoBase = None
  /\ evaluated = None
  /\ detailTitle = << >>
  /\ detailNote = << >>
  /\ settle = {}
  /\ typed = {}
  /\ abandoned = {}
  /\ boot = Startup("start", 0, 0)
  /\ legacy \in LegacySources
  /\ migrated \in BOOLEAN
  /\ store = (IF migrated THEN SeedStore ELSE << >>)
  /\ last = Step("init", Null)
  /\ ticksLeft = 0
  /\ opsLeft = BootRuns
  /\ failuresLeft = BootFailures

NextBoot ==
  \/ StartApp
  \/ \E i \in 1..Len(calls), ok \in BOOLEAN : StoreAnswer(i, ok)
  \/ \E i \in 1..Len(calls) : MigrateAnswered(i)
  \/ LoadSucceeded
  \/ \E i \in 1..Len(calls) : LoadFailed(i)
  \/ Restart

SpecBoot == InitBoot /\ [][NextBoot]_vars

(* ------------------------------- teardown ------------------------------ *)

\* user operations, clock ticks, store failures and teardowns of a teardown
\* behaviour
TearOps == 3
TearTicks == 2
TearFailures == 1
TearRuns == 1

\* the component is mounted and has its first life
Mounted == boot.pc = "ready" /\ boot.teardowns = 0

\* the task whose snapshot is pending with its grace timer armed and not expired
PendingTask ==
  IF deletedSnapshot # None /\ Running(timers, deletedSnapshot[1], now)
    THEN deletedSnapshot[1].todo.id
    ELSE Null

\* the cleanup of the startup effect: clearTimeout(undoTimer.current). When the
\* teardown is the window being closed, the page goes and every timeout with
\* it; when the component is only unmounted, the other timeouts stay armed.
\* The state of the component is gone either way; the commands handed to the
\* store stay in flight.
Teardown(closed) ==
  /\ boot.pc = "ready"
  /\ boot.teardowns < TearRuns
  /\ timers' = IF closed THEN {} ELSE ClearTimeout(timers, undoTimer)
  /\ undoTimer' = None
  /\ todos' = << >>
  /\ selectedTodoId' = Null
  /\ deletedSnapshot' = None
  /\ errorMessage' = Null
  /\ detailTitle' = << >>
  /\ detailNote' = << >>
  /\ settle' = {}
  /\ typed' = {}
  /\ abandoned' = {}
  /\ boot' = [Startup("start", 0, 0) EXCEPT !.teardowns = boot.teardowns + 1,
                                            !.pending = PendingTask]
  /\ last' = Step("teardown", PendingTask)
  /\ undoBase' = None
  /\ UNCHANGED << calls, store, created, now, ticksLeft, opsLeft, failuresLeft, finalizes,
                  restored, evaluated, legacy, migrated >>

\* the response of a command dispatched before the teardown: the setState calls
\* of the continuation go to a component that is gone, and the catch block of a
\* mutation or of finalizeDelete still dispatches the list command of refreshTodos
OrphanAnswered(i) ==
  /\ boot.teardowns > 0
  /\ boot.pc = "start"
  /\ i \in 1..Len(calls)
  /\ calls[i].stage # "sent"
  /\ calls' = IF calls[i].stage = "err" /\ calls[i].cmd \in MutationCmds \cup {"delete_todo"}
                THEN Append(RemoveAt(calls, i), listTodos(Null, Null))
                ELSE RemoveAt(calls, i)
  /\ last' = [op |-> "orphan", id |-> calls[i].id, call |-> calls[i]]
  /\ undoBase' = None
  /\ UNCHANGED << todos, selectedTodoId, deletedSnapshot, errorMessage, undoTimer, timers,
                  store, created, now, ticksLeft, opsLeft, failuresLeft, finalizes, restored,
                  evaluated, editVars, bootVars, migrated >>

\* the next startup, once the commands in flight and the timeouts left over
\* have run out
StartAgain ==
  /\ boot.teardowns > 0
  /\ calls = << >>
  /\ timers = {}
  /\ StartApp

InitTeardown ==
  /\ Loaded(SeedStore3)
  /\ ticksLeft = TearTicks
  /\ opsLeft = TearOps
  /\ failuresLeft = TearFailures

NextTeardown ==
  \/ Mounted /\ \E id \in Ids(todos) : HandleTodoSelect(id)
  \/ Mounted /\ DeleteSelected
  \/ Mounted /\ UndoDelete
  \/ \E t \in timers : TimerFire(t)
  \/ Tick(UndoGraceMs)
  \/ \E i \in 1..Len(calls), ok \in BOOLEAN : StoreAnswer(i, ok)
  \/ Mounted /\ \E i \in 1..Len(calls) : Receive(i)
  \/ \E closed \in BOOLEAN : Teardown(closed)
  \/ \E i \in 1..Len(calls) : OrphanAnswered(i)
  \/ StartAgain
  \/ \E i \in 1..Len(calls) : MigrateAnswered(i)
  \/ LoadSucceeded
  \/ \E i \in 1..Len(calls) : LoadFailed(i)

SpecTeardown == InitTeardown /\ [][NextTeardown]_vars

(* ------------- the mutating operations, called with any id ------------- *)

\* user operations, clock ticks and store failures of such a behaviour
FrameOps == 2
FrameTicks == 1
FrameFailures == 1

\* the ids the operations are called with: those of the tasks the store holds
\* (a task pending delete among them) and one that no task has
FrameIds == Ids(store) \cup {"t9"}

\* applyTodoPatch(todoId, patch) called with any id
PatchAny(todoId, patch) ==
  /\ UserOp("applyTodoPatch", todoId)
  /\ applyTodoPatch(todoId, patch)
  /\ Unselected

\* toggleTodo(todoId) called with any id
ToggleAny(todoId) ==
  /\ UserOp("toggleTodo", todoId)
  /\ toggleTodo(todoId)
  /\ Unselected

\* setRecurringCycleCheck(todoId, checked) called with any id
CheckAny(todoId, checked) ==
  /\ UserOp("setRecurringCycleCheck", todoId)
  /\ setRecurringCycleCheck(todoId, checked)
  /\ Unselected

InitFrame ==
  /\ Loaded(SeedStore)
  /\ ticksLeft = FrameTicks
  /\ opsLeft = FrameOps
  /\ failuresLeft = FrameFailures

NextFrame ==
  \/ \E id \in FrameIds, p \in PatchInputs : PatchAny(id, p)
  \/ \E id \in FrameIds : ToggleAny(id)
  \/ \E id \in FrameIds, checked \in BOOLEAN : CheckAny(id, checked)
  \/ \E id \in Ids(todos) : HandleTodoSelect(id)
  \/ DeleteSelected
  \/ UndoDelete
  \/ \E t \in timers : TimerFire(t)
  \/ Tick(UndoGraceMs)
  \/ \E i \in 1..Len(calls), ok \in BOOLEAN : StoreAnswer(i, ok)
  \/ \E i \in 1..Len(calls) : Receive(i)

SpecFrame == InitFrame /\ [][NextFrame]_vars

(* ------------------------------- claims -------------------------------- *)

\* the step handles the response of a mutation (update, toggle, cycle check)
MutationHandled(stage) ==
  /\ last'.op = "response"
  /\ last'.call.cmd \in MutationCmds
  /\ last'.call.stage = stage

\* C1: when two mutations of the same task are in flight and the response of the
\* older one is handled after the response of the newer one, the older response
\* is not applied: the in-memory record of the task stays as it was.
C1_OlderResponseNotApplied ==
  [][(MutationHandled("ok") /\ last'.call.stale /\ Has(todos, last'.id))
       => Find(todos', last'.id) = Find(todos, last'.id)]_vars

\* the step dispatches a command of one of the controller's mutating operations
Dispatched(cmds) ==
  /\ Len(calls') = Len(calls) + 1
  /\ calls'[Len(calls')].cmd \in cmds
  /\ calls'[Len(calls')].stage = "sent"

NewCall == calls'[Len(calls')]

\* the in-memory collection shows, in the step that dispatches it, what the newest call asks for
ShownInMemory ==
  CASE NewCall.cmd = "create_todo" ->
         \E k \in 1..Len(todos') : todos'[k].title = NewCall.input.title /\ ~Has(todos, todos'[k].id)
    [] NewCall.cmd = "update_todo" ->
         \A f \in DOMAIN NewCall.input : Find(todos', NewCall.id)[f] = NewCall.input[f]
    [] NewCall.cmd = "toggle_todo" ->
         Find(todos', NewCall.id).completed = ~Find(todos, NewCall.id).completed
    [] OTHER ->
         Find(todos', NewCall.id).recurrenceCheckedAt =
           (IF NewCall.input.checked THEN Iso(now) ELSE NullTime)

\* C2 as stated: create, patch, toggleCompleted and setCycleCheck all change the
\* in-memory collection in the step that invokes them, before the store responds.
C2_EveryMutationOptimistic ==
  [][Dispatched(MutationCmds \cup {"create_todo"}) => ShownInMemory]_vars

\* C2: patch, toggleCompleted and setCycleCheck write their change and a
\* provisional updatedAt into the in-memory record in the step that invokes them,
\* before the store responds; create changes nothing in memory when invoked.
C2_MutationsOptimisticCreateDeferred ==
  [][/\ Dispatched(MutationCmds) =>
          /\ ShownInMemory
          /\ Find(todos', NewCall.id).updatedAt = Iso(now)
          /\ store' = store
     /\ Dispatched({"create_todo"}) => todos' = todos /\ selectedTodoId' = selectedTodoId]_vars

\* C2 witness: a toggle is in flight, shown in memory and not yet known to the store
C2_Witness ==
  /\ last.op = "toggleTodo"
  /\ \E i \in 1..Len(calls) : calls[i].cmd = "toggle_todo" /\ calls[i].stage = "sent"
  /\ Has(todos, last.id) /\ Has(store, last.id)
  /\ Find(todos, last.id).completed # Find(store, last.id).completed

\* C3: a successful response to update, toggle or cycle check for a task of the
\* collection puts the returned record, whole, at the position of the task and
\* leaves every other record as it was.
C3_ResponseReplacesRecord ==
  [][(MutationHandled("ok") /\ Has(todos, last'.id)) =>
       /\ Len(todos') = Len(todos)
       /\ \A k \in 1..Len(todos) :
            todos'[k] = IF todos[k].id = last'.id THEN last'.call.result[1] ELSE todos[k]]_vars

\* C3 witness: a response has replaced an optimistic record stamped earlier
C3_Witness ==
  /\ last.op = "response" /\ last.call.cmd \in MutationCmds /\ last.call.stage = "ok"
  /\ Has(todos, last.id)
  /\ Find(todos, last.id) = last.call.result[1]
  /\ last.call.result[1].updatedAt.ms > 0
  /\ Len(todos) > 1

ListCalls(cs) == { i \in 1..Len(cs) : cs[i].cmd = "list_todos" }

\* the step handles the response of a list command
ListHandled(stage) ==
  /\ last'.op = "response"
  /\ last'.call.cmd = "list_todos"
  /\ last'.call.stage = stage

\* C4: the failure of a patch sets the error message and dispatches exactly one
\* list command; the result of a list command replaces the whole collection.
C4_PatchFailureRefreshes ==
  [][/\ (MutationHandled("err") /\ last'.call.cmd = "update_todo") =>
          /\ errorMessage' = ErrorText("update_todo")
          /\ errorMessage' # Null
          /\ Cardinality(ListCalls(calls')) = Cardinality(ListCalls(calls)) + 1
          /\ calls'[Len(calls')] = listTodos(last'.id, Null)
     /\ (ListHandled("ok") /\ last'.call.preferred # Null) => todos' = last'.call.result]_vars

\* C4 witness: the refresh after a failed patch has put the stored title back
C4_Witness ==
  /\ last.op = "response" /\ last.call.cmd = "list_todos" /\ last.call.stage = "ok"
  /\ last.call.preferred # Null
  /\ errorMessage = ErrorText("update_todo")
  /\ todos = store
  /\ Has(todos, last.call.preferred)
  /\ Find(todos, last.call.preferred).title # << "c" >>

FailureHandled(cmds) ==
  /\ last'.op = "response"
  /\ last'.call.cmd \in cmds
  /\ last'.call.stage = "err"

\* C5 as stated: the failure of create, update, toggle, cycle check or delete
\* sets the error message and dispatches a list command.
C5_EveryFailureRefreshes ==
  [][FailureHandled(MutationCmds \cup {"create_todo", "delete_todo"}) =>
       /\ errorMessage' = ErrorText(last'.call.cmd)
       /\ Cardinality(ListCalls(calls')) = Cardinality(ListCalls(calls)) + 1]_vars

\* C5: the failure of update, toggle, cycle check or delete sets the error
\* message, replacing any earlier one, and dispatches a list command; the
\* failure of create sets the error message and dispatches nothing.
C5_FailureRefreshesExceptCreate ==
  [][/\ FailureHandled(MutationCmds \cup {"delete_todo"}) =>
          /\ errorMessage' = ErrorText(last'.call.cmd)
          /\ errorMessage' # Null
          /\ Cardinality(ListCalls(calls')) = Cardinality(ListCalls(calls)) + 1
     /\ FailureHandled({"create_todo"}) =>
          /\ errorMessage' = ErrorText(last'.call.cmd)
          /\ errorMessage' # Null
          /\ \E i \in 1..Len(calls) : calls[i] = last'.call /\ calls' = RemoveAt(calls, i)
          /\ todos' = todos]_vars

\* C5 witness: a failed delete has left its message and a list command in flight
C5_Witness ==
  /\ last.op = "response" /\ last.call.cmd = "delete_todo" /\ last.call.stage = "err"
  /\ errorMessage = ErrorText("delete_todo")
  /\ ListCalls(calls) # {}

\* C6 as stated: the refresh after a failed mutation keeps the id selected before
\* it whenever that id is in the refreshed collection, and only otherwise selects
\* the first item, or none.
C6_RefreshKeepsSelection ==
  [][ListHandled("ok") =>
       selectedTodoId' =
         IF selectedTodoId # Null /\ Has(last'.call.result, selectedTodoId)
           THEN selectedTodoId ELSE FirstId(last'.call.result)]_vars

\* C6: the refresh after a failed update, toggle or cycle check of X selects X
\* whenever X is in the refreshed collection, whatever was selected before; the
\* refresh after a failed delete keeps the selected id whenever it is in the
\* refreshed collection; otherwise the first item is selected, or none.
C6_RefreshSelectsTarget ==
  [][ListHandled("ok") =>
       LET wanted == IF last'.call.preferred # Null THEN last'.call.preferred ELSE selectedTodoId
       IN selectedTodoId' =
            IF wanted # Null /\ Has(last'.call.result, wanted)
              THEN wanted ELSE FirstId(last'.call.result)]_vars

\* C6 witness: the refresh after a failed delete found the selected task gone
\* and selected the first item
C6_Witness ==
  /\ last.op = "response" /\ last.call.cmd = "list_todos" /\ last.call.stage = "ok"
  /\ last.call.preferred = Null
  /\ last.call.result # << >>
  /\ selectedTodoId = FirstId(last.call.result)
  /\ errorMessage = ErrorText("delete_todo")

\* C7: after the refresh that follows a failed patch of X, X is selected if it is
\* in the refreshed collection, and otherwise the first item, or none.
C7_FailedPatchSelectsTarget ==
  [][(ListHandled("ok") /\ last'.call.preferred # Null) =>
       selectedTodoId' =
         IF Has(todos', last'.call.preferred) THEN last'.call.preferred ELSE FirstId(todos')]_vars

\* C7 witness: the refresh after a failed patch selected the patched task while
\* another task had been selected in between
C7_Witness ==
  /\ last.op = "response" /\ last.call.cmd = "list_todos" /\ last.call.stage = "ok"
  /\ last.call.preferred # Null
  /\ selectedTodoId = last.call.preferred
  /\ errorMessage = ErrorText("update_todo")
  /\ FirstId(todos) # selectedTodoId

\* the step is a deleteTodo of a task of the collection
DeleteInvoked == last'.op = "deleteTodo" /\ Has(todos, last'.id)

\* C8: delete(id) of a task of the collection removes it at once, records a
\* snapshot of the task and of the index it had, and arms a grace timer of 5000;
\* while that snapshot is pending and its timer has not expired, no delete
\* command for the task is dispatched, except by a superseding delete.
C8_DeleteDefersCommand ==
  [][/\ DeleteInvoked =>
          /\ ~Has(todos', last'.id)
          /\ deletedSnapshot' # None
          /\ deletedSnapshot'[1].todo = Find(todos, last'.id)
          /\ deletedSnapshot'[1].index = FindIndex(todos, last'.id)
          /\ \E t \in timers' :
               /\ undoTimer' = Some(t.h)
               /\ t.h = deletedSnapshot'[1].h
               /\ t.id = last'.id
               /\ t.fireAt = now + UndoGraceMs
          /\ \A k \in (Len(calls) + 1)..Len(calls') :
               ~(calls'[k].cmd = "delete_todo" /\ calls'[k].id = last'.id)
     /\ (deletedSnapshot # None /\ Running(timers, deletedSnapshot[1], now) /\ last'.op # "deleteTodo")
          => \A k \in (Len(calls) + 1)..Len(calls') :
               ~(calls'[k].cmd = "delete_todo" /\ calls'[k].id = deletedSnapshot[1].todo.id)]_vars

\* C9: deleting task B while the snapshot of task A is pending cancels the grace
\* timer of A, dispatches the delete command for A in the same step, and gives B
\* its own snapshot with a fresh timer of 5000; a superseded snapshot is never
\* the pending one again, so no undo restores it; there is at most one snapshot.
C9_SupersedeFinalizesPending ==
  [][/\ (DeleteInvoked /\ deletedSnapshot # None) =>
          /\ \A t \in timers' : t.h # deletedSnapshot[1].h
          /\ Len(calls') = Len(calls) + 1
          /\ calls'[Len(calls')] = deleteTodoRecord(deletedSnapshot[1].todo.id)
          /\ deletedSnapshot' # None
          /\ deletedSnapshot'[1].todo.id = last'.id
          /\ deletedSnapshot'[1].h # deletedSnapshot[1].h
          /\ \E t \in timers' :
               /\ undoTimer' = Some(t.h)
               /\ t.h = deletedSnapshot'[1].h
               /\ t.fireAt = now + UndoGraceMs
     /\ Len(deletedSnapshot') <= 1
     /\ deletedSnapshot' # None =>
          ~\E f \in finalizes' : f.h = deletedSnapshot'[1].h /\ f.by = "superseded"]_vars

\* C10: for each snapshot made by delete, at most one delete command is
\* dispatched, by the expiry of its timer or by a superseding delete.
C10_FinalizeAtMostOnce == \A f \in finalizes : f.n <= 1

\* the step handles the response of a delete command
DeleteHandled(stage) ==
  /\ last'.op = "response"
  /\ last'.call.cmd = "delete_todo"
  /\ last'.call.stage = stage

\* no snapshot of the task is pending
NoSnapshotOf(snap, id) == snap = None \/ snap[1].todo.id # id

\* C11 as stated: once the delete command of a finalize is answered, with success
\* or with failure, no snapshot of that task is pending; a failure sets the error
\* message and dispatches the list command of a full refresh.
C11_AnswerClearsSnapshot ==
  [][/\ (DeleteHandled("ok") \/ DeleteHandled("err")) => NoSnapshotOf(deletedSnapshot', last'.call.id)
     /\ DeleteHandled("err") =>
          /\ errorMessage' = ErrorText("delete_todo")
          /\ Cardinality(ListCalls(calls')) = Cardinality(ListCalls(calls)) + 1]_vars

\* C11: a successful answer to the delete command of a finalize clears the
\* snapshot of that task in the same step. A failed answer sets the error message
\* and dispatches the list command of a full refresh, and leaves the snapshot as
\* it is; the snapshot of that task is cleared when that list command is answered,
\* with success or failure, and a successful list replaces the collection by the
\* rows of the store, so the task is back if the store held it.
C11_FinalizeClearsSnapshot ==
  [][/\ DeleteHandled("ok") =>
          /\ NoSnapshotOf(deletedSnapshot', last'.call.id)
          /\ errorMessage' = Null
          /\ ListCalls(calls') = {} <=> ListCalls(calls) = {}
     /\ DeleteHandled("err") =>
          /\ errorMessage' = ErrorText("delete_todo")
          /\ errorMessage' # Null
          /\ Cardinality(ListCalls(calls')) = Cardinality(ListCalls(calls)) + 1
          /\ calls'[Len(calls')] = listTodos(Null, last'.call.id)
          /\ deletedSnapshot' = deletedSnapshot
     /\ (last'.op = "response" /\ last'.call.cmd = "list_todos" /\ last'.call.finalize # Null) =>
          /\ NoSnapshotOf(deletedSnapshot', last'.call.finalize)
          /\ last'.call.stage = "ok" =>
               /\ todos' = last'.call.result
               /\ Has(last'.call.result, last'.call.finalize) => Has(todos', last'.call.finalize)]_vars

\* C11 witness: the refresh after a failed finalize has brought the task back and
\* its snapshot is gone, the error message still shown
C11_Witness ==
  /\ last.op = "response" /\ last.call.cmd = "list_todos" /\ last.call.stage = "ok"
  /\ last.call.finalize # Null
  /\ Has(todos, last.call.finalize)
  /\ Has(store, last.call.finalize)
  /\ deletedSnapshot = None
  /\ errorMessage = ErrorText("delete_todo")


\* the step is an undo() while a snapshot is pending whose finalize has not happened
UndoBeforeFinalize ==
  /\ last'.op = "undoDelete"
  /\ deletedSnapshot # None
  /\ ~\E f \in finalizes : f.h = deletedSnapshot[1].h

\* the sequence after is the sequence before with rec inserted at the 0-based index k
InsertedAt(before, after, k, rec) ==
  /\ Len(after) = Len(before) + 1
  /\ after[k + 1] = rec
  /\ \A j \in 1..Len(before) : after[IF j <= k THEN j ELSE j + 1] = before[j]

\* C12: undo() while a snapshot is pending and before its finalize cancels the
\* grace timer of the snapshot, inserts the task of the snapshot at index
\* min(originalIndex, length of the collection), selects it and clears the snapshot.
C12_UndoRestores ==
  [][UndoBeforeFinalize =>
       /\ \A t \in timers' : t.h # deletedSnapshot[1].h
       /\ undoTimer' = None
       /\ InsertedAt(todos, todos',
                     IF deletedSnapshot[1].index < Len(todos) THEN deletedSnapshot[1].index
                     ELSE Len(todos),
                     deletedSnapshot[1].todo)
       /\ selectedTodoId' = deletedSnapshot[1].todo.id
       /\ deletedSnapshot' = None]_vars


\* C13: undo() after the finalize of the snapshot has occurred, the response of
\* the store outstanding or not, changes neither the collection nor the selection.
C13_UndoAfterFinalizeNoOp ==
  [][(last'.op = "undoDelete" /\ FinalizeOccurred)
       => /\ todos' = todos
          /\ selectedTodoId' = selectedTodoId]_vars


\* C14: undo() dispatches nothing, and after undo() has restored a task while its
\* grace timer was running, no delete command for that task is dispatched unless
\* delete is invoked on it again.
C14_CancelledTimerNeverDeletes ==
  [][/\ last'.op = "undoDelete" => calls' = calls
     /\ \A k \in (Len(calls) + 1)..Len(calls') :
          calls'[k].cmd = "delete_todo" => calls'[k].id \notin restored']_vars


\* the commands in flight that name the task
CallsOf(cs, id) == { k \in 1..Len(cs) : cs[k].id = id }

\* C15: deleteTodo(id) followed by undo() before the grace timer expires, with
\* nothing but the passing of time in between, leaves the collection the same
\* sequence of the same records as before the delete, and no command for the
\* task has been dispatched.
C15_DeleteUndoRoundTrip ==
  [][(/\ last'.op = "undoDelete"
      /\ undoBase # None
      /\ deletedSnapshot # None
      /\ Running(timers, deletedSnapshot[1], now))
       => /\ todos' = undoBase[1].todos
          /\ Cardinality(CallsOf(calls', last'.id)) = Cardinality(CallsOf(undoBase[1].calls, last'.id))]_vars


\* the evaluator has been called on an uncompleted task whose recurrenceCheckedAt is a timestamp
EvaluatedOpen(tags) ==
  /\ evaluated # None
  /\ ~evaluated[1].todo.completed
  /\ evaluated[1].todo.recurrenceTag \in tags
  /\ evaluated[1].todo.recurrenceCheckedAt.k = "iso"

\* the number of the local calendar day of an instant
DayNumber(ms) == (ms + TzOffsetMs) \div MsPerDay

\* C16: isRecurringCycleChecked is true for every completed task, whatever its
\* tag, its recurrenceCheckedAt and now.
C16_CompletedIsSatisfied ==
  (evaluated # None /\ evaluated[1].todo.completed) => evaluated[1].result = TRUE

\* C16 witness: a completed weekly task whose recurrenceCheckedAt is no timestamp
\* has been evaluated as satisfied
C16_Witness ==
  /\ evaluated # None
  /\ evaluated[1].todo.completed
  /\ evaluated[1].todo.recurrenceTag = "weekly"
  /\ evaluated[1].todo.recurrenceCheckedAt.k = "text"
  /\ evaluated[1].result = TRUE

\* C17: for an uncompleted daily task with a timestamp in recurrenceCheckedAt, the
\* result is true exactly when the timestamp and now are on the same local
\* calendar day: 23:59:59 of a day is not satisfied at 00:00:01 of the next, and
\* 00:00:00 of a day is still satisfied at 23:59:59 of it.
C17_DailySameCalendarDay ==
  EvaluatedOpen({"daily"}) =>
    /\ evaluated[1].result = TRUE
         <=> DayNumber(evaluated[1].todo.recurrenceCheckedAt.ms) = DayNumber(evaluated[1].at)
    /\ (evaluated[1].todo.recurrenceCheckedAt.ms = MsPerDay - 1000 /\ evaluated[1].at = MsPerDay + 1000)
         => evaluated[1].result = FALSE
    /\ (evaluated[1].todo.recurrenceCheckedAt.ms = 0 /\ evaluated[1].at = MsPerDay - 1000)
         => evaluated[1].result = TRUE

\* C17 witness: a check at 23:59:59 evaluated as unsatisfied 2 seconds later
C17_Witness ==
  /\ EvaluatedOpen({"daily"})
  /\ evaluated[1].todo.recurrenceCheckedAt.ms = MsPerDay - 1000
  /\ evaluated[1].at = MsPerDay + 1000
  /\ evaluated[1].result = FALSE

\* C18: for an uncompleted weekly (bi-weekly) task with a timestamp in
\* recurrenceCheckedAt, the result is true exactly when now - recurrenceCheckedAt
\* is less than 7 (14) days; exactly 7 (14) days is not satisfied.
C18_RollingWindow ==
  /\ EvaluatedOpen({"weekly"}) =>
       (evaluated[1].result = TRUE
          <=> evaluated[1].at - evaluated[1].todo.recurrenceCheckedAt.ms < 7 * 86400000)
  /\ EvaluatedOpen({"bi-weekly"}) =>
       (evaluated[1].result = TRUE
          <=> evaluated[1].at - evaluated[1].todo.recurrenceCheckedAt.ms < 14 * 86400000)

\* C18 witness: a weekly check evaluated as unsatisfied exactly 7 days later
C18_Witness ==
  /\ EvaluatedOpen({"weekly"})
  /\ evaluated[1].at - evaluated[1].todo.recurrenceCheckedAt.ms = 7 * 86400000
  /\ evaluated[1].result = FALSE

\* C19: for an uncompleted daily, weekly or bi-weekly task whose
\* recurrenceCheckedAt is null, empty or no timestamp, the result is false.
C19_AbsentIsUnsatisfied ==
  (/\ evaluated # None
   /\ ~evaluated[1].todo.completed
   /\ evaluated[1].todo.recurrenceTag \in {"daily", "weekly", "bi-weekly"}
   /\ evaluated[1].todo.recurrenceCheckedAt.k \in {"null", "empty", "text"})
    => evaluated[1].result = FALSE

\* C19 witness: an uncompleted daily task whose recurrenceCheckedAt is no
\* timestamp has been evaluated as unsatisfied
C19_Witness ==
  /\ evaluated # None
  /\ ~evaluated[1].todo.completed
  /\ evaluated[1].todo.recurrenceTag = "daily"
  /\ evaluated[1].todo.recurrenceCheckedAt.k = "text"
  /\ evaluated[1].result = FALSE

\* C20: for a task whose tag is none the result is completed, whatever
\* recurrenceCheckedAt and now are.
C20_NoneIsCompleted ==
  (evaluated # None /\ evaluated[1].todo.recurrenceTag = "none")
    => evaluated[1].result = evaluated[1].todo.completed

\* C20 witness: an uncompleted task without recurrence, checked less than a day
\* ago according to its recurrenceCheckedAt, has been evaluated as unsatisfied
C20_Witness ==
  /\ evaluated # None
  /\ evaluated[1].todo.recurrenceTag = "none"
  /\ ~evaluated[1].todo.completed
  /\ evaluated[1].todo.recurrenceCheckedAt = Iso(0)
  /\ evaluated[1].at = MsPerDay - 1000
  /\ evaluated[1].result = FALSE


\* the step is a mark-done interaction on a task of the collection
MarkDone ==
  /\ last'.op \in {"toggleTodo", "setRecurringCycleCheck"}
  /\ Has(todos, last'.id)

\* the fields of the task named by the step whose values the step has changed
ChangedFields ==
  { f \in DOMAIN Find(todos, last'.id) : Find(todos', last'.id)[f] # Find(todos, last'.id)[f] }

\* the cycle of the task is satisfied now: completed, or checked on this calendar
\* day (daily), or less than 7 (weekly) or 14 (bi-weekly) days ago
Satisfied(todo, at) ==
  \/ todo.completed
  \/ /\ todo.recurrenceTag # "none"
     /\ todo.recurrenceCheckedAt.k = "iso"
     /\ CASE todo.recurrenceTag = "daily" ->
               DayNumber(todo.recurrenceCheckedAt.ms) = DayNumber(at)
          [] todo.recurrenceTag = "weekly" -> at - todo.recurrenceCheckedAt.ms < 7 * 86400000
          [] OTHER -> at - todo.recurrenceCheckedAt.ms < 14 * 86400000

\* C21: the mark-done interaction dispatches exactly one command: toggle_todo
\* when the tag is none or the task is completed, set_recurrence_check otherwise,
\* which asks for a check (recurrenceCheckedAt = now) when the cycle is
\* unsatisfied and for a clear (recurrenceCheckedAt = null) when it is satisfied.
C21_MarkDoneResolves ==
  [][MarkDone =>
       LET todo == Find(todos, last'.id)
       IN /\ Len(calls') = Len(calls) + 1
          /\ NewCall.id = todo.id
          /\ IF todo.recurrenceTag = "none" \/ todo.completed
               THEN /\ NewCall.cmd = "toggle_todo"
                    /\ Find(todos', todo.id).completed = ~todo.completed
               ELSE /\ NewCall.cmd = "set_recurrence_check"
                    /\ NewCall.input.checked = ~Satisfied(todo, now)
                    /\ Find(todos', todo.id).recurrenceCheckedAt =
                         IF Satisfied(todo, now) THEN NullTime ELSE Iso(now)]_vars

\* C21 witness: the interaction on an open weekly task whose cycle was satisfied
\* has asked for a clear
C21_Witness ==
  /\ last.op = "setRecurringCycleCheck"
  /\ Len(calls) = 1
  /\ calls[1].cmd = "set_recurrence_check"
  /\ calls[1].input.checked = FALSE
  /\ Find(todos, last.id).recurrenceTag = "weekly"
  /\ Find(todos, last.id).recurrenceCheckedAt = NullTime
  /\ Find(store, last.id).recurrenceCheckedAt.k = "iso"

\* C22: setRecurringCycleCheck(id, checked) on a recurring task changes, in the
\* optimistic record, recurrenceCheckedAt (now if checked, null otherwise) and
\* updatedAt only: completed stays as it was, and no other record changes.
C22_CycleCheckKeepsCompleted ==
  [][(last'.op = "setRecurringCycleCheck" /\ Has(todos, last'.id)
      /\ Find(todos, last'.id).recurrenceTag # "none") =>
       /\ ChangedFields \subseteq {"recurrenceCheckedAt", "updatedAt"}
       /\ Find(todos', last'.id).completed = Find(todos, last'.id).completed
       /\ Find(todos', last'.id).recurrenceCheckedAt =
            IF NewCall.input.checked THEN Iso(now) ELSE NullTime
       /\ Find(todos', last'.id).updatedAt = Iso(now)
       /\ \A i \in 1..Len(todos) : todos[i].id # last'.id => todos'[i] = todos[i]]_vars

\* C22 witness: a daily task whose cycle has just been marked done is still open
C22_Witness ==
  /\ last.op = "setRecurringCycleCheck"
  /\ Find(todos, last.id).recurrenceTag = "daily"
  /\ Find(todos, last.id).recurrenceCheckedAt = Iso(now)
  /\ ~Find(todos, last.id).completed

\* C23: toggleTodo(id) negates completed in the optimistic record of any task of
\* the collection, whatever its tag, and changes no field but completed and
\* updatedAt: recurrenceTag and recurrenceCheckedAt are kept.
C23_ToggleKeepsRecurrence ==
  [][(last'.op = "toggleTodo" /\ Has(todos, last'.id)) =>
       /\ Find(todos', last'.id).completed = ~Find(todos, last'.id).completed
       /\ ChangedFields \subseteq {"completed", "updatedAt"}
       /\ Find(todos', last'.id).recurrenceTag = Find(todos, last'.id).recurrenceTag
       /\ Find(todos', last'.id).recurrenceCheckedAt = Find(todos, last'.id).recurrenceCheckedAt
       /\ \A i \in 1..Len(todos) : todos[i].id # last'.id => todos'[i] = todos[i]]_vars

\* C23 witness: a completed bi-weekly task with a cycle check has been reopened,
\* its check kept
C23_Witness ==
  /\ last.op = "toggleTodo"
  /\ Find(todos, last.id).recurrenceTag = "bi-weekly"
  /\ Find(todos, last.id).recurrenceCheckedAt.k = "iso"
  /\ ~Find(todos, last.id).completed
  /\ Find(store, last.id).completed


\* the update commands waiting for the store that carry the field f
UpdatesOf(cs, f) ==
  { k \in 1..Len(cs) : cs[k].cmd = "update_todo" /\ cs[k].stage = "sent" /\ f \in DOMAIN cs[k].input }

\* the step is a keystroke in the title field or in the note field
Typed == last'.op \in {"typeTitle", "typeNote"}

\* the step dispatches an update command that carries the field f
UpdateDispatched(f) == Cardinality(UpdatesOf(calls', f)) > Cardinality(UpdatesOf(calls, f))

\* C24: a title or note edit is committed only after the settle timer has run
\* 220 ms with no further keystroke: a keystroke dispatches nothing and leaves
\* exactly one timer armed, due 220 ms later; an update command is dispatched
\* only by the callback of a timer armed at least 220 ms before; and the callback
\* dispatches the title exactly when its trimmed value is not empty and differs
\* from the title of the in-memory record, the note exactly when it differs from
\* the note of the in-memory record
C24_EditCommitsAfterSettle ==
  [][ /\ Typed =>
           /\ calls' = calls
           /\ todos' = todos
           /\ Cardinality(settle') = 1
           /\ \A s \in settle' :
                /\ s.armedAt = now
                /\ s.fireAt = now + 220
                /\ s.todo = Find(todos, selectedTodoId)
                /\ s.title = detailTitle'
                /\ s.note = detailNote'
      /\ (UpdateDispatched("title") \/ UpdateDispatched("note")) =>
           /\ last'.op = "settle"
           /\ \E s \in settle : s.todo.id = last'.id /\ now - s.armedAt >= 220
      /\ last'.op = "settle" =>
           /\ Has(todos, last'.id)
           /\ selectedTodoId = last'.id
           /\ UpdateDispatched("title")
                <=> Trim(detailTitle) # << >> /\ Trim(detailTitle) # Find(todos, last'.id).title
           /\ UpdateDispatched("note") <=> detailNote # Find(todos, last'.id).note
           /\ \A k \in UpdatesOf(calls', "title") :
                k > Len(calls) => calls'[k].id = last'.id /\ calls'[k].input.title = Trim(detailTitle)
           /\ \A k \in UpdatesOf(calls', "note") :
                k > Len(calls) => calls'[k].id = last'.id /\ calls'[k].input.note = detailNote
    ]_vars

\* C24 witness: two keystrokes 110 ms apart, and the title committed 220 ms
\* after the second
C24_Witness ==
  /\ last.op = "settle"
  /\ now = 330
  /\ opsLeft = 0
  /\ \E k \in UpdatesOf(calls, "title") : calls[k].input.title = << "c" >> /\ calls[k].stage = "sent"


\* the step changes the selection
SelectionMoved == selectedTodoId' # selectedTodoId

\* C25: when the selection changes while an edit waits for its settle timer, the
\* edit is lost: the step dispatches no update command, the edit fields hold the
\* title and the note of the task now selected, the timer left armed carries
\* that title and that note, and no update command dispatched later, for any
\* task, carries a text abandoned this way, unless a keystroke follows
C25_SelectionChangeLosesEdit ==
  [][ /\ SelectionMoved =>
           /\ ~UpdateDispatched("title")
           /\ ~UpdateDispatched("note")
           /\ IF Has(todos', selectedTodoId')
                THEN /\ detailTitle' = Find(todos', selectedTodoId').title
                     /\ detailNote' = Find(todos', selectedTodoId').note
                ELSE detailTitle' = << >> /\ detailNote' = << >>
           /\ \A s \in settle' :
                /\ s.todo.id = selectedTodoId'
                /\ s.title = s.todo.title
                /\ s.note = s.todo.note
      /\ \A f \in {"title", "note"} : \A k \in UpdatesOf(calls', f) :
           k > Len(calls) => [f |-> f, text |-> calls'[k].input[f]] \notin abandoned
    ]_vars

\* C25 witness: the title c was typed for t1, t2 has been selected before the
\* timer fired, and the fields show t2
C25_Witness ==
  /\ last.op = "select"
  /\ selectedTodoId = "t2"
  /\ [f |-> "title", text |-> << "c" >>] \in abandoned
  /\ detailTitle = << "b" >>
  /\ \A k \in 1..Len(calls) : calls[k].cmd # "update_todo"


\* the text is empty or white space only
Blank(text) == \A i \in 1..Len(text) : text[i] = " "

\* C26: a title that is empty after trimming is rejected before any dispatch:
\* addTodo with such a title dispatches nothing and changes neither the
\* collection, the selection, the error message nor the store, and the debounce
\* callback dispatches no title update while the title field is blank; no
\* create or update command in flight carries a blank title
C26_BlankTitleRejected ==
  [][ /\ \A t \in NewTitles :
           (Blank(t) /\ AddTodo(t, "none", Null)) =>
             /\ calls' = calls
             /\ todos' = todos
             /\ selectedTodoId' = selectedTodoId
             /\ errorMessage' = errorMessage
             /\ store' = store
      /\ (last'.op = "settle" /\ Blank(detailTitle)) => ~UpdateDispatched("title")
      /\ \A k \in 1..Len(calls') :
           (calls'[k].cmd \in {"create_todo", "update_todo"} /\ "title" \in DOMAIN calls'[k].input)
             => ~Blank(calls'[k].input.title)
    ]_vars

\* C26 witness: addTodo has returned on a blank title, nothing in flight
C26_Witness ==
  /\ last.op = "addTodo"
  /\ calls = << >>
  /\ todos = SeedStore
  /\ opsLeft = EditOps - 1


\* the calls waiting for the store that carry the command cmd
Sent(cs, cmd) == { k \in 1..Len(cs) : cs[k].cmd = cmd /\ cs[k].stage = "sent" }

\* the step handles the answer of the migrate command, a success or a failure
MigrateHandled(stage) ==
  /\ last'.op = "response"
  /\ last'.call.cmd = MigrateCmd
  /\ last'.call.stage = stage

\* C27: a startup dispatches the migrate command exactly once, and before its
\* first list command: the list command is dispatched only by the step that
\* handles the success of the migrate command, and after a failure of the
\* migrate command the startup has dispatched no list command
C27_MigrateOnceBeforeList ==
  [][ /\ Cardinality(Sent(calls', MigrateCmd)) > Cardinality(Sent(calls, MigrateCmd)) =>
           /\ boot.migrates = 0
           /\ boot.lists = 0
           /\ Sent(calls, "list_todos") = {}
      /\ boot'.pc # "start" => boot'.migrates = 1
      /\ Cardinality(Sent(calls', "list_todos")) > Cardinality(Sent(calls, "list_todos")) =>
           /\ MigrateHandled("ok")
           /\ boot.lists = 0
      /\ MigrateHandled("err") =>
           /\ Sent(calls', "list_todos") = {}
           /\ boot'.pc = "failed"
      /\ (boot'.answer = "err" \/ boot'.answer = "none") =>
           /\ boot'.lists = 0
           /\ \A k \in 1..Len(calls') : calls'[k].cmd # "list_todos"
    ]_vars

\* C27 witness: a second startup whose migrate command has failed, no list
\* command dispatched
C27_Witness ==
  /\ boot.pc = "failed"
  /\ boot.answer = "err"
  /\ boot.migrates = 1
  /\ boot.lists = 0
  /\ calls = << >>
  /\ opsLeft = 0

\* the answer of the migrate command that the step handles
Answer == last'.call.result[1]

\* C28, as amended: after a success of the migrate command the legacy source is
\* cleared if and only if the payload handed over was not empty and
\* migratedCount > 0 or alreadyMigrated = true; otherwise localStorage is left as
\* it was
C28_ClearedIffTransferred ==
  [][ MigrateHandled("ok") =>
        IF /\ Len(last'.call.input.payload) > 0
           /\ (Answer.migratedCount > 0 \/ Answer.alreadyMigrated)
          THEN legacy' = None /\ boot'.cleared
          ELSE legacy' = legacy /\ ~boot'.cleared
    ]_vars

\* C28 witness: the store has answered alreadyMigrated = true to an empty
\* payload, and the text under the legacy key, which is no array, is still there
C28_Witness ==
  /\ boot.answer = "ok"
  /\ boot.alreadyMigrated
  /\ boot.payload = << >>
  /\ ~boot.cleared
  /\ legacy # None
  /\ legacy = boot.source

\* C28, as stated: after a success of the migrate command the legacy source is
\* empty if migratedCount > 0 or alreadyMigrated = true, for every payload, and
\* left as it was otherwise
C28_ClearedIffAnswer ==
  [][ MigrateHandled("ok") =>
        IF Answer.migratedCount > 0 \/ Answer.alreadyMigrated
          THEN legacy' = None
          ELSE legacy' = legacy /\ ~boot'.cleared
    ]_vars

\* the migrate command of this startup has failed, or has answered that nothing
\* was transferred and nothing had been
NotMigrated(b) ==
  \/ b.answer = "err"
  \/ b.answer = "ok" /\ b.migratedCount = 0 /\ ~b.alreadyMigrated

\* C29: when the migrate command fails, or answers migratedCount = 0 and
\* alreadyMigrated = false, the legacy source is not cleared: for the rest of the
\* startup localStorage holds what it held when the startup began, and a restart
\* finds it there; after a failure the error message is set
C29_KeptWhenNotMigrated ==
  [][ /\ NotMigrated(boot') =>
           /\ legacy' = boot'.source
           /\ ~boot'.cleared
      /\ boot'.answer = "err" =>
           /\ errorMessage' = "migrate failed"
           /\ boot'.pc = "failed"
      /\ (NotMigrated(boot) /\ last'.op = "restart") => legacy' = boot.source
      /\ (NotMigrated(boot) /\ last'.op = "restart") =>
           loadLegacyTodosFromLocalStorage(legacy') = boot.payload
    ]_vars

\* C29 witness: the second startup hands over the records that the first one,
\* whose migrate command failed, did not transfer
C29_Witness ==
  /\ boot.pc = "migrating"
  /\ opsLeft = 0
  /\ failuresLeft = 0
  /\ boot.payload # << >>
  /\ store = << >>
  /\ ~migrated
  /\ boot.source = legacy

\* the element of the array under the legacy key that has the id
LegacyItem(source, id) ==
  source[1].items[CHOOSE k \in 1..Len(source[1].items) :
                    "id" \in DOMAIN source[1].items[k] /\ source[1].items[k].id = id]

\* C30: every record handed to the migrate command has both recurrence fields:
\* recurrenceTag is none where the legacy record has no recurrenceTag, and
\* recurrenceCheckedAt is null where it has no recurrenceCheckedAt
C30_PayloadNormalized ==
  \A i \in 1..Len(calls) :
    calls[i].cmd = MigrateCmd =>
      \A k \in 1..Len(calls[i].input.payload) :
        LET rec == calls[i].input.payload[k]
            item == LegacyItem(boot.source, rec.id)
        IN /\ {"recurrenceTag", "recurrenceCheckedAt"} \subseteq DOMAIN rec
           /\ "recurrenceTag" \notin DOMAIN item => rec.recurrenceTag = "none"
           /\ "recurrenceCheckedAt" \notin DOMAIN item => rec.recurrenceCheckedAt = NullTime


\* the store answers the migrate command in flight at position i with success
MigrateCarriedOut(i) ==
  /\ i \in 1..Len(calls)
  /\ Len(calls') = Len(calls)
  /\ calls[i].cmd = MigrateCmd
  /\ calls[i].stage = "sent"
  /\ calls'[i].stage = "ok"

\* C31: migration is idempotent. A migrate command answered while no migration
\* has been done answers {N, false} for a payload of N records and adds N rows;
\* answered after a migration it answers {0, true} and adds no row, so the same
\* payload twice leaves N rows and no id twice; an empty payload adds no row
C31_MigrateIdempotent ==
  [][ \A i \in 1..Len(calls) :
        MigrateCarriedOut(i) =>
          LET payload == calls[i].input.payload
              answer == calls'[i].result[1]
          IN /\ IF migrated
                  THEN /\ answer = [migratedCount |-> 0, alreadyMigrated |-> TRUE]
                       /\ store' = store
                  ELSE /\ answer = [migratedCount |-> Len(payload), alreadyMigrated |-> FALSE]
                       /\ Len(store') = Len(store) + Len(payload)
             /\ Len(payload) = 0 => store' = store
             /\ Len(payload) > 0 => migrated'
             /\ Cardinality(Ids(store')) = Len(store')
    ]_vars

\* C31 witness: the second startup has handed over the payload that the first
\* one transferred, the answer is {0, true} and the store holds the N rows
C31_Witness ==
  /\ opsLeft = 0
  /\ boot.answer = "ok"
  /\ Len(boot.payload) = 2
  /\ boot.migratedCount = 0
  /\ boot.alreadyMigrated
  /\ Len(store) = 2
  /\ Ids(store) = { boot.payload[k].id : k \in 1..2 }



\* C32: in every reachable state the in-memory collection holds at most one
\* record per task id
C32_OneRecordPerId == Cardinality(Ids(todos)) = Len(todos)


\* C33: while a snapshot exists for a task (pending delete, undo offered), that
\* task is not in the visible in-memory collection
C33_PendingTaskHidden == deletedSnapshot # None => ~Has(todos, deletedSnapshot[1].todo.id)


\* every dispatched command answered and handled, no grace or debounce timer
\* armed, no snapshot pending
Quiescent == calls = <<>> /\ timers = {} /\ settle = {} /\ deletedSnapshot = None

C35_ArmedTimerHasSnapshot ==
  \A t \in timers : deletedSnapshot # None /\ deletedSnapshot[1].todo.id = t.id


\* C36: after every operation has settled (selection repair included) the
\* selected id is none or the id of a task in the in-memory collection, and
\* deleting the selected task leaves the selection at none
C36_SelectionValid ==
  /\ [](selectedTodoId = Null \/ Has(todos, selectedTodoId))
  /\ [][ last'.op = "deleteTodo" /\ Has(todos, last'.id) /\ selectedTodoId = last'.id
           => selectedTodoId' = Null /\ ~Has(todos', last'.id) ]_vars

\* the selected task has been deleted, other tasks are left, and nothing is selected
C36_Witness ==
  /\ last.op = "deleteTodo"
  /\ deletedSnapshot # None
  /\ deletedSnapshot[1].todo.id = last.id
  /\ todos # << >>
  /\ selectedTodoId = Null


\* the step is one debounce callback that dispatches a title patch and then a
\* note patch for a task of the collection
SettleCommitsBoth ==
  /\ last'.op = "settle"
  /\ Len(calls') = Len(calls) + 2
  /\ "title" \in DOMAIN calls'[Len(calls) + 1].input
  /\ "note" \in DOMAIN calls'[Len(calls) + 2].input
  /\ Has(todos, last'.id)

\* C37: when one debounce settle commits both a title patch and a note patch,
\* the in-memory record after the two optimistic applications carries both the
\* new title and the new note
C37_OptimisticPatchesCompose ==
  [][ SettleCommitsBoth =>
        /\ Find(todos', last'.id).title = calls'[Len(calls) + 1].input.title
        /\ Find(todos', last'.id).note = calls'[Len(calls) + 2].input.note ]_vars


\* the component was torn down while the snapshot of boot.pending was pending
Torn == boot.teardowns > 0 /\ boot.pending # Null

\* C38: if the controller is torn down while a snapshot is pending (grace
\* timer armed, not yet expired), the timer is cancelled and no delete command
\* for the pending task is dispatched afterwards, so the store still holds the
\* task and it is listed again at the next startup
C38_TeardownKeepsTask ==
  /\ [](Torn => /\ \A t \in timers : t.id # boot.pending
                /\ Has(store, boot.pending)
                /\ boot.pc = "ready" => Has(todos, boot.pending))
  /\ [][Torn' => ~(Dispatched({"delete_todo"}) /\ calls'[Len(calls')].id = boot.pending')]_vars


\* a well-formed legacy record whose recurrenceTag is absent or one of the four tags
ValidLegacy(item) ==
  /\ {"id", "title", "note", "completed", "dueDate", "createdAt", "updatedAt"} \subseteq DOMAIN item
  /\ "recurrenceTag" \in DOMAIN item => item.recurrenceTag \in RecurrenceTags

\* C39: when every record of the legacy source is well-formed with a
\* recurrenceTag that is absent or one of none, daily, weekly, bi-weekly, the
\* migration payload has as many records as the source: none is dropped
C39_ValidTagsKept ==
  (/\ boot.migrates > 0
   /\ boot.source # None
   /\ boot.source[1].k = "array"
   /\ \A k \in 1..Len(boot.source[1].items) : ValidLegacy(boot.source[1].items[k]))
  => /\ Len(boot.payload) = Len(boot.source[1].items)
     /\ \A k \in 1..Len(boot.payload) : boot.payload[k].id = boot.source[1].items[k].id


\* the step is patch, toggleCompleted or setCycleCheck called with an id that is
\* not in the in-memory collection, or setCycleCheck called for a task whose
\* recurrenceTag is none
CalledInVain ==
  /\ last'.op \in {"applyTodoPatch", "toggleTodo", "setRecurringCycleCheck"}
  /\ \/ ~Has(todos, last'.id)
     \/ last'.op = "setRecurringCycleCheck" /\ Find(todos, last'.id).recurrenceTag = "none"

\* C40: patch, toggleCompleted and setCycleCheck called with an id that is not
\* in the in-memory collection, and setCycleCheck called for a task whose
\* recurrenceTag is none, change no state (collection, selection, error
\* message, snapshot) and dispatch no command to the store
C40_VainCallChangesNothing ==
  [][ CalledInVain =>
        UNCHANGED << todos, selectedTodoId, errorMessage, deletedSnapshot, calls, store >> ]_vars

\* the last of the user operations was setCycleCheck called for a listed task
\* with the tag none, and no command is in flight
C40_Witness ==
  /\ last.op = "setRecurringCycleCheck"
  /\ Has(todos, last.id)
  /\ Find(todos, last.id).recurrenceTag = "none"
  /\ calls = << >>
  /\ opsLeft = 0


====
